---- MODULE Spec2Model ----
(***************************************************************************)
(* A model of the ingestion / deduplication / enrichment pipeline of the   *)
(* AI knowledge base: the flat-file corpus (parsed_emails.json) written by *)
(* parse_mbox.py, add_mbox.py and generate_summaries.py, and the SQLite    *)
(* store filled by scripts/migrate_to_sqlite.py and rebuilt by the         *)
(* services.                                                               *)
(*                                                                         *)
(* Strings that the code normalises (subject, date) are tuples of          *)
(* one-character strings, so that lower() and strip() are computed.  A     *)
(* body is the set of vocabulary words that occur in it.                   *)
(***************************************************************************)
EXTENDS Integers, Sequences, FiniteSets, TLC

VARIABLES
    file,              \* parsed_emails.json: the persisted list of email dicts
    new_emails,        \* add_mbox.main: the batch returned by parse_mbox_file
    total_new,         \* add_mbox.main: counter of emails added by the run
    total_duplicates,  \* add_mbox.main: counter of duplicates skipped
    lastOp,            \* the pipeline operation that produced this state
    emails_tbl,        \* table emails
    email_categories,  \* table email_categories
    next_id,           \* the next rowid of emails (sqlite_sequence)
    recat_pc,          \* recategorize_emails.main: "idle" or "running"
    recat_ids,         \* recategorize_emails.main: email_ids
    recat_i,           \* recategorize_emails.main: emails of the pass done
    recat_response,    \* what the classification capability did for the last email
    gs_pc,             \* generate_summaries.main: "idle", "loop", "done", "crashed"
    gs_loaded,         \* generate_summaries.main: the list as json.load returned it
    gs_emails,         \* generate_summaries.main: emails, updated in place
    gs_i,              \* generate_summaries.main: iterations of the loop done
    gs_called,         \* positions generate_summary was called for in this pass
    processed,         \* generate_summaries.main: processed
    failed,            \* generate_summaries.main: failed
    entities,          \* table entities
    email_entities,    \* table email_entities
    tools,             \* table tools
    tool_mentions,     \* table tool_mentions
    trend_snapshots,   \* table trend_snapshots
    modules,           \* table modules
    lessons,           \* table lessons
    lesson_sources,    \* table lesson_sources
    quiz_questions,    \* table quiz_questions
    user_progress,     \* table user_progress
    rb_op,             \* the rebuild that runs, or ran last
    rb_pc,             \* its position
    rb_tx,             \* the rows its connection has written and not committed
    rb_old,            \* the committed rows of its tables when it started
    rb_src,            \* the emails and associations it read last
    embedding,         \* column embedding of table emails, where it is not NULL
    hs_client,         \* hybrid_search: what the embedding capability did
    hs_query,          \* hybrid_search: query
    hs_limit,          \* hybrid_search: limit
    semantic_results,  \* hybrid_search: semantic_results
    keyword_results,   \* hybrid_search: keyword_results
    merged,            \* hybrid_search: the list returned
    trends,            \* get_trending_topics: the list returned
    sq_lesson,         \* api_submit_quiz: lesson_id
    sq_payload,        \* api_submit_quiz: the body of the request
    sq_status,         \* api_submit_quiz: the status of the response
    sq_result,         \* api_submit_quiz: the result of grade_quiz
    mbox,              \* parse_mbox.py: the records of the archive last parsed
    email_links,       \* the email_links table
    processed_files,   \* processed_mbox_files.json: the ledger of add_mbox
    am_pc,             \* add_mbox.main: position of the run
    am_selected,       \* add_mbox.main: the files still to process
    am_existing        \* add_mbox.main: existing_emails, in memory

fileVars == <<file, new_emails, total_new, total_duplicates, lastOp>>
dbVars == <<emails_tbl, email_categories, next_id, recat_pc, recat_ids, recat_i,
           recat_response>>
summVars == <<gs_pc, gs_loaded, gs_emails, gs_i, gs_called, processed, failed>>
entityVars == <<entities, email_entities>>
toolVars == <<tools, tool_mentions>>
curriculumVars == <<modules, lessons, lesson_sources, quiz_questions, user_progress>>
aggVars == <<entityVars, toolVars, trend_snapshots, curriculumVars>>
rbVars == <<rb_op, rb_pc, rb_tx, rb_old, rb_src>>
hsVars == <<hs_client, hs_query, hs_limit, semantic_results, keyword_results, merged>>
searchVars == <<embedding, hsVars>>
quizVars == <<sq_lesson, sq_payload, sq_status, sq_result>>
parseVars == <<mbox>>
linkVars == <<email_links>>
ledgerVars == <<processed_files, am_pc, am_selected, am_existing>>
vars == <<fileVars, dbVars, summVars, aggVars, rbVars, searchVars, trends, quizVars, parseVars, linkVars, ledgerVars>>

(***************************************************************************)
(* Bounds of the model.                                                    *)
(***************************************************************************)
MaxBatch == 2          \* records in one mbox archive
MaxId == 3             \* rowids the emails table may hand out
MaxMixed == 3          \* emails of a corpus with mixed summaries
MaxCorpus == 12        \* emails of a long corpus
MaxLesson == 2         \* order_index of the lessons a request may name

(***************************************************************************)
(* Raw mail records, as mailbox.mbox yields them.                          *)
(***************************************************************************)
Raw(s, d, c) == [subject |-> s, date |-> d, content |-> c, malformed |-> FALSE]

\* The records archives are built from: a message, a variant of it in
\* another case and with a trailing space after the date, a variant with a
\* trailing space after the subject, and another message.
RawMsgs ==
    { Raw(<<"a">>,      <<"1">>,      {"news"}),
      Raw(<<"A">>,      <<"1", " ">>, {"claude"}),
      Raw(<<"a", " ">>, <<"1">>,      {"claude", "agent"}),
      Raw(<<"b">>,      <<"2">>,      {"agent"}) }

(***************************************************************************)
(* Strings.                                                                *)
(***************************************************************************)
\* str.lower() on the characters the model uses.
LowerChar(c) ==
    CASE c = "A" -> "a"
      [] c = "B" -> "b"
      [] OTHER   -> c

Lower(s) == [i \in 1..Len(s) |-> LowerChar(s[i])]

IsSpace(c) == c = " "

\* str.strip(): leading and trailing whitespace removed, inner kept.
RECURSIVE LStrip(_)
LStrip(s) ==
    IF s # <<>> /\ IsSpace(Head(s)) THEN LStrip(Tail(s)) ELSE s

RECURSIVE RStrip(_)
RStrip(s) ==
    IF s # <<>> /\ IsSpace(s[Len(s)]) THEN RStrip(SubSeq(s, 1, Len(s) - 1)) ELSE s

Strip(s) == RStrip(LStrip(s))

\* hashlib.md5(key).hexdigest(): modelled as injective on the keys of the
\* model (the digest of a key is the key).
Md5(key) == key

\* key = f"{subject}{date}".lower().strip(), tabulated over the subjects and
\* dates of the model so that each key is computed once.
NormalizedKey ==
    [sd \in {<<m.subject, m.date>> : m \in RawMsgs} |-> Strip(Lower(sd[1] \o sd[2]))]

\* add_mbox.generate_email_hash
generate_email_hash(email) ==
    Md5(NormalizedKey[<<email.subject, email.date>>])

\* A mutant of get_existing_hashes: the key is hashed as it is stored.
get_existing_hashes_raw(emails) ==
    {Md5(emails[i].subject \o emails[i].date) : i \in 1..Len(emails)}

\* add_mbox.get_existing_hashes
get_existing_hashes(emails) ==
    {generate_email_hash(emails[i]) : i \in 1..Len(emails)}

(***************************************************************************)
(* The rule-based classifier (parse_mbox.categorize_email).  Two of the    *)
(* rules are kept; a body is the set of vocabulary words in it.            *)
(***************************************************************************)
Sentinel == "General AI"

RuleTable ==
    << [label |-> "Claude & Anthropic", triggers |-> {"claude", "anthropic"}],
       [label |-> "AI Agents",          triggers |-> {"agent", "agents", "agentic"}] >>

RECURSIVE MatchRules(_, _)
MatchRules(text, k) ==
    IF k > Len(RuleTable) THEN <<>>
    ELSE (IF RuleTable[k].triggers \cap text # {}
          THEN <<RuleTable[k].label>> ELSE <<>>) \o MatchRules(text, k + 1)

\* A mutant of categorize_email: no sentinel when no rule matches.
categorize_email_no_sentinel(subject, content) ==
    MatchRules(content, 1)

\* parse_mbox.categorize_email.  The subjects of the model hold no trigger
\* word, so the text searched is the body's words.
categorize_email(subject, content) ==
    LET categories == MatchRules(content, 1)
    IN  IF categories = <<>> THEN <<Sentinel>> ELSE categories

(***************************************************************************)
(* The normaliser (parse_mbox.parse_mbox_file).                            *)
(***************************************************************************)
RECURSIVE SeqsUpTo(_, _)
SeqsUpTo(S, n) ==
    IF n = 0 THEN {<<>>}
    ELSE LET shorter == SeqsUpTo(S, n - 1)
         IN  shorter \cup {Append(q, x) : q \in {r \in shorter : Len(r) = n - 1}, x \in S}

Archives == SeqsUpTo(RawMsgs, MaxBatch)

\* The archives of the specifications of the store: a message no rule
\* matches and a message two rules match.
StoreMsgs == {m \in RawMsgs : Len(m.subject) = 1 /\ Len(m.date) = 1 /\ m.content # {"agent"}}
                \cup {m \in RawMsgs : Len(m.subject) = 2}

StoreArchives == SeqsUpTo(StoreMsgs, MaxBatch)

\* A mailbox that grows: three messages about one topic, the second with a
\* Date header no parser accepts.  Its exports are its prefixes.
Mailbox ==
    << Raw(<<"a">>, <<"2">>, {"claude"}),
       Raw(<<"b">>, <<"x">>, {"claude", "agent"}),
       Raw(<<"c">>, <<"3">>, {"claude"}) >>

MailboxExports == {SubSeq(Mailbox, 1, n) : n \in 0..Len(Mailbox)}

\* The absent 'summary' key is <<>>, the empty summary <<"">>.
NoSummary == <<>>
EmptySummary == <<"">>
SummaryText == <<"s">>

\* A mutant of ParseRecord: a record without a subject is dropped.
ParseRecordSubjectOnly(raw) ==
    IF raw.malformed THEN <<>>
    ELSE IF raw.subject # <<>>
         THEN << [subject    |-> raw.subject,
                  date       |-> raw.date,
                  content    |-> raw.content,
                  categories |-> categorize_email(raw.subject, raw.content),
                  summary    |-> NoSummary] >>
         ELSE <<>>

\* One iteration of parse_mbox_file's loop: the dict appended for a record,
\* or nothing when the record raises or has neither subject nor body.
ParseRecord(raw) ==
    IF raw.malformed THEN <<>>
    ELSE IF raw.subject # <<>> \/ raw.content # {}
         THEN << [subject    |-> raw.subject,
                  date       |-> raw.date,
                  content    |-> raw.content,
                  categories |-> categorize_email(raw.subject, raw.content),
                  summary    |-> NoSummary] >>
         ELSE <<>>

RECURSIVE parse_mbox_file(_)
parse_mbox_file(archive) ==
    IF archive = <<>> THEN <<>>
    ELSE ParseRecord(Head(archive)) \o parse_mbox_file(Tail(archive))

ParsedArchive == [a \in Archives \cup MailboxExports |-> parse_mbox_file(a)]

(***************************************************************************)
(* add_mbox.main: the duplicate check, the summaries, the merge.           *)
(***************************************************************************)
\* A mutant of DedupStep: the hash of a new email is not added to the set.
DedupStepNoAdd(st, email) ==
    LET email_hash == generate_email_hash(email)
    IN  IF email_hash \notin st.existing_hashes
        THEN [st EXCEPT !.unique_new = Append(@, email)]
        ELSE [st EXCEPT !.duplicates = @ + 1]

\* The body of the "Step 2" loop.
DedupStep(st, email) ==
    LET email_hash == generate_email_hash(email)
    IN  IF email_hash \notin st.existing_hashes
        THEN [st EXCEPT !.unique_new = Append(@, email),
                        !.existing_hashes = @ \cup {email_hash}]
        ELSE [st EXCEPT !.duplicates = @ + 1]

RECURSIVE DedupLoop(_, _)
DedupLoop(st, emails) ==
    IF emails = <<>> THEN st
    ELSE DedupLoop(DedupStep(st, Head(emails)), Tail(emails))

\* A mutant of WithSummaries: the first failed call ends the loop, and the
\* emails after it keep no summary.
WithSummariesAbort(unique_new, ok) ==
    [i \in 1..Len(unique_new) |->
        [unique_new[i] EXCEPT !.summary =
            IF \E k \in 1..(i - 1) : ~ok[k] THEN NoSummary
            ELSE IF ok[i] THEN SummaryText ELSE EmptySummary]]

\* "Step 3": email['summary'] is the capability's text, or '' when it failed.
\* ok[i] says whether the call for the i-th new email succeeded.
WithSummaries(unique_new, ok) ==
    [i \in 1..Len(unique_new) |->
        [unique_new[i] EXCEPT !.summary = IF ok[i] THEN SummaryText ELSE EmptySummary]]

\* A mutant of MergeInto: the new emails are put before the existing ones.
MergeIntoFront(existing_emails, summarized) == summarized \o existing_emails

\* existing_emails.extend(unique_new)
MergeInto(existing_emails, summarized) == existing_emails \o summarized

\* The duplicate check of one run: "Step 2" on the parsed archive, against
\* the hashes of the loaded corpus.
DedupRun(existing_emails, parsed) ==
    DedupLoop([unique_new |-> <<>>,
               existing_hashes |-> get_existing_hashes(existing_emails),
               duplicates |-> 0],
              parsed)

\* The corpus the run saves ("Step 4"); nothing is extended when no email is new.
SavedCorpus(existing_emails, unique_new, ok) ==
    IF unique_new # <<>>
    THEN MergeInto(existing_emails, WithSummaries(unique_new, ok))
    ELSE existing_emails

\* One run of add_mbox.main on one new archive: load, parse, deduplicate,
\* summarize, extend, save.  new_emails, total_new and total_duplicates are
\* the run's locals, as its closing report prints them.
AddMbox(archive) ==
    LET parsed == ParsedArchive[archive]
        st     == DedupRun(file, parsed)
    IN  \E ok \in [1..Len(st.unique_new) -> BOOLEAN] :
            /\ file' = SavedCorpus(file, st.unique_new, ok)
            /\ new_emails' = parsed
            /\ total_new' = Len(st.unique_new)
            /\ total_duplicates' = st.duplicates
            /\ lastOp' = "add_mbox"
            /\ UNCHANGED dbVars
            /\ UNCHANGED <<summVars, aggVars, rbVars, searchVars, trends, quizVars, parseVars, linkVars, ledgerVars>>

\* The same run where the report of the run is not observed.
AddMboxUnobserved(archive) ==
    LET st == DedupRun(file, ParsedArchive[archive])
    IN  \E ok \in [1..Len(st.unique_new) -> BOOLEAN] :
            /\ file' = SavedCorpus(file, st.unique_new, ok)
            /\ lastOp' = "add_mbox"
            /\ UNCHANGED <<new_emails, total_new, total_duplicates>>
            /\ UNCHANGED dbVars
            /\ UNCHANGED <<summVars, aggVars, rbVars, searchVars, trends, quizVars, parseVars, linkVars, ledgerVars>>

\* A run of add_mbox while no enrichment pass is in its loop: the pipeline is
\* run as one process at a time.
AddMboxAlone(archive) == gs_pc # "loop" /\ AddMbox(archive)

\* parse_mbox.py run as a script: the archive's emails replace the file.
ParseMain(archive) ==
    /\ file' = ParsedArchive[archive]
    /\ lastOp' = "parse"
    /\ UNCHANGED <<new_emails, total_new, total_duplicates>>
    /\ UNCHANGED dbVars
    /\ UNCHANGED <<summVars, aggVars, rbVars, searchVars, trends, quizVars, parseVars, linkVars, ledgerVars>>

(***************************************************************************)
(* The relational store: scripts/migrate_to_sqlite.py.                     *)
(* A table is the set of its committed rows.                               *)
(***************************************************************************)
\* email.get('summary', ''): the column holds '' when the key is absent.
SummaryColumn(email) == IF email.summary = NoSummary THEN "" ELSE email.summary[1]

\* parse_email_date: None (<<>>) for an empty or unparseable header, else
\* the datetime, a number that orders as the ISO string does.
parse_email_date(date_str) ==
    IF date_str = <<>> THEN <<>>
    ELSE LET s == Strip(date_str)
         IN  IF s = <<"1">> THEN <<1>>
             ELSE IF s = <<"2">> THEN <<2>>
             ELSE IF s = <<"3">> THEN <<3>>
             ELSE <<>>

\* The row INSERTed for the i-th email of the file, with the rowid it gets.
EmailRow(email, id) ==
    [id                  |-> id,
     subject             |-> email.subject,
     date                |-> email.date,
     date_parsed         |-> parse_email_date(email.date),
     content             |-> email.content,
     summary             |-> SummaryColumn(email),
     original_categories |-> email.categories]

\* INSERT OR IGNORE INTO email_categories, one row per category of the email.
CategoryRows(email, id) ==
    {[email_id |-> id, category |-> email.categories[k]] : k \in 1..Len(email.categories)}

(***************************************************************************)
(* The aggregate tables and their rebuilds.  A table variable holds the    *)
(* committed rows, which is what every other connection reads; rb_tx holds *)
(* the rows as the rebuilding connection sees them inside its open         *)
(* transaction.  Rowids of the aggregate tables are not modelled: an       *)
(* entity or a tool is identified by its name (UNIQUE), a module by its    *)
(* title and a lesson by its module and its order_index.                   *)
(***************************************************************************)
\* A mutant of Uncommitted: every statement is committed as it executes.
UncommittedVisible(committed, written) == written

\* The rows other connections read while a connection of get_connection
\* has executed DML and not committed: the committed ones.
Uncommitted(committed, written) == committed

Min(S) == CHOOSE x \in S : \A y \in S : x <= y
Max(S) == CHOOSE x \in S : \A y \in S : x >= y

\* The non-NULL date_parsed values of a set of email rows.
Dates(rows) == {e.date_parsed[1] : e \in {r \in rows : r.date_parsed # <<>>}}

\* first_seen / first_mention and last_seen / last_mention.
FirstDate(rows) == IF Dates(rows) = {} THEN <<>> ELSE <<Min(Dates(rows))>>
LastDate(rows) == IF Dates(rows) = {} THEN <<>> ELSE <<Max(Dates(rows))>>

\* KNOWN_ENTITIES: two of the names, with the lowercased name searched for.
KNOWN_ENTITIES ==
    { [name |-> "Claude",    type |-> "tool",    pattern |-> "claude"],
      [name |-> "AI Agents", type |-> "concept", pattern |-> "ai agents"] }

\* extract_entities_pattern: the known entities whose name is a word of the
\* text (the subjects of the model hold no entity name).
extract_entities_pattern(email) ==
    {k \in KNOWN_ENTITIES : k.pattern \in email.content}

\* entity_stats after the loop over the emails, as the rows inserted.
EntityRows(emails) ==
    LET mentioning(k) == {e \in emails : k \in extract_entities_pattern(e)}
    IN  { [name          |-> k.name,
           type          |-> k.type,
           first_seen    |-> FirstDate(mentioning(k)),
           last_seen     |-> LastDate(mentioning(k)),
           mention_count |-> Cardinality(mentioning(k))] :
          k \in {x \in KNOWN_ENTITIES : mentioning(x) # {}} }

EmailEntityRows(emails) ==
    UNION { {[email_id |-> e.id, entity |-> k.name] : k \in extract_entities_pattern(e)} :
            e \in emails }

EntityTables(emails) ==
    [entities |-> EntityRows(emails), email_entities |-> EmailEntityRows(emails)]

\* What the extraction capability may answer for one email in LLM mode: an
\* error (the pattern extraction is the fallback), or a JSON array of
\* entities, which may name an entity twice.
LlmAnswers ==
    { "error",
      <<>>,
      << [name |-> "Claude", type |-> "tool"] >>,
      << [name |-> "Claude", type |-> "tool"], [name |-> "Claude", type |-> "tool"] >> }

\* The entities of a set, as a list.
AsList(S) ==
    CHOOSE s \in [1..Cardinality(S) -> S] :
        \A i, j \in 1..Cardinality(S) : i < j => s[i] # s[j]

\* extract_entities_llm: the answer's list, or the pattern extraction when
\* the call or the parsing of the answer raised.
extract_entities_llm(email, answer) ==
    IF answer = "error"
    THEN LET found == AsList(extract_entities_pattern(email))
         IN  [k \in 1..Len(found) |-> [name |-> found[k].name, type |-> found[k].type]]
    ELSE answer

\* entity_stats after the loop over the emails in LLM mode, as the rows
\* inserted: count is incremented once per entity the answer lists, and
\* INSERT OR IGNORE keeps one association per (email, entity).
EntityTablesLlm(emails, answers) ==
    LET found(e) == extract_entities_llm(e, answers[e.id])
        occurrences(n) == {o \in UNION {{<<e, k>> : k \in 1..Len(found(e))} : e \in emails} :
                              found(o[1])[o[2]].name = n}
        names == UNION {{found(e)[k].name : k \in 1..Len(found(e))} : e \in emails}
        mentioning(n) == {o[1] : o \in occurrences(n)}
        first(n) == CHOOSE o \in occurrences(n) :
                        \A p \in occurrences(n) :
                            o[1].id < p[1].id \/ (o[1].id = p[1].id /\ o[2] <= p[2])
    IN  [entities |->
            { [name          |-> n,
               type          |-> found(first(n)[1])[first(n)[2]].type,
               first_seen    |-> FirstDate(mentioning(n)),
               last_seen     |-> LastDate(mentioning(n)),
               mention_count |-> Cardinality(occurrences(n))] : n \in names },
         email_entities |->
            UNION { {[email_id |-> e.id, entity |-> found(e)[k].name] :
                        k \in 1..Len(found(e))} : e \in emails }]

\* TOOLS_DICTIONARY: two of the tools, with a word their patterns match.
TOOLS_DICTIONARY ==
    { [name |-> "Claude", normalized_name |-> "claude", category |-> "LLM",
       pattern |-> "claude"],
      [name |-> "Claude Code", normalized_name |-> "claude_code",
       category |-> "AI Coding Agent", pattern |-> "claude code"] }

extract_tool_mentions(email) ==
    {t \in TOOLS_DICTIONARY : t.pattern \in email.content}

ToolRows(emails) ==
    LET mentioning(t) == {e \in emails : t \in extract_tool_mentions(e)}
    IN  { [name            |-> t.name,
           normalized_name |-> t.normalized_name,
           category        |-> t.category,
           first_mention   |-> FirstDate(mentioning(t)),
           last_mention    |-> LastDate(mentioning(t)),
           mention_count   |-> Cardinality(mentioning(t))] :
          t \in {x \in TOOLS_DICTIONARY : mentioning(x) # {}} }

ToolMentionRows(emails) ==
    UNION { {[email_id |-> e.id, tool |-> t.name] : t \in extract_tool_mentions(e)} :
            e \in emails }

ToolTables(emails) ==
    [tools |-> ToolRows(emails), tool_mentions |-> ToolMentionRows(emails)]

\* DATE(e.date_parsed): the day of a timestamp; a day has two timestamps.
DATE(timestamp) == timestamp \div 2

\* A mutant of TrendRows: the rows are grouped by timestamp, not by day.
TrendRowsByTimestamp(emails, cats) ==
    LET joined == {<<e, c>> \in emails \X cats :
                       c.email_id = e.id /\ e.date_parsed # <<>>}
    IN  { [date        |-> DATE(g[1]),
           category    |-> g[2],
           email_count |-> Cardinality({j \in joined :
                                           j[1].date_parsed[1] = g[1]
                                           /\ j[2].category = g[2]})] :
          g \in {<<j[1].date_parsed[1], j[2].category>> : j \in joined} }

\* INSERT INTO trend_snapshots ... SELECT: one row per (date, category) of
\* the emails that have a date_parsed, joined with their associations.
TrendRows(emails, cats) ==
    LET joined == {<<e, c>> \in emails \X cats :
                       c.email_id = e.id /\ e.date_parsed # <<>>}
    IN  { [date        |-> g[1],
           category    |-> g[2],
           email_count |-> Cardinality({j \in joined :
                                           DATE(j[1].date_parsed[1]) = g[1]
                                           /\ j[2].category = g[2]})] :
          g \in {<<DATE(j[1].date_parsed[1]), j[2].category>> : j \in joined} }

\* HAVING count >= 3: the associations a category needs to become a module.
MinCategoryEmails == 3

\* A sequence of the elements of S by decreasing key; the order of equal
\* keys is whatever the database returns.
SortDesc(S, key) ==
    CHOOSE s \in [1..Cardinality(S) -> S] :
        \A i, j \in 1..Cardinality(S) :
            i < j => s[i] # s[j] /\ key[s[i]] >= key[s[j]]

CategoryCount(cats, category) == Cardinality({c \in cats : c.category = category})

\* max(2, min(8, count // 10 + 2))
LessonCount(count) == Max({2, Min({8, (count \div 10) + 2})})

\* get_category_based_curriculum: a module per category that has at least
\* three emails, by decreasing count.
get_category_based_curriculum(cats) ==
    LET eligible == {category \in {c.category : c \in cats} :
                         CategoryCount(cats, category) >= MinCategoryEmails}
        Count(category) == CategoryCount(cats, category)
        ordered == SortDesc(eligible, [category \in eligible |-> Count(category)])
    IN  [k \in 1..Len(ordered) |->
            [order          |-> k,
             title          |-> ordered[k],
             category       |-> ordered[k],
             target_lessons |-> LessonCount(Count(ordered[k]))]]

\* ORDER BY e.date_parsed DESC: NULL sorts after every date.
DateKey(e) == IF e.date_parsed = <<>> THEN 0 ELSE e.date_parsed[1]

\* create_lessons_for_category: the lessons and their source links for the
\* newest max_lessons emails of the category.
create_lessons_for_category(module, category, max_lessons, emails, cats) ==
    LET in_category == {e \in emails :
                           \E c \in cats : c.email_id = e.id /\ c.category = category}
        ordered == SortDesc(in_category, [e \in in_category |-> DateKey(e)])
        n == Min({max_lessons, Len(ordered)})
    IN  [lessons |->
            { [module_id   |-> module,
               order_index |-> idx,
               title       |-> IF ordered[idx].subject # <<>>
                               THEN ordered[idx].subject ELSE <<"Lesson">>,
               content     |-> IF ordered[idx].summary # ""
                               THEN ordered[idx].summary ELSE "Learn about"] :
              idx \in 1..n },
         lesson_sources |->
            { [lesson_id |-> <<module, idx>>, email_id |-> ordered[idx].id] :
              idx \in 1..n }]

\* The rows initialize_curriculum inserts after it cleared the tables.
CurriculumTables(emails, cats) ==
    LET curriculum == get_category_based_curriculum(cats)
        made(k) == create_lessons_for_category(curriculum[k].title,
                       curriculum[k].category, curriculum[k].target_lessons,
                       emails, cats)
    IN  [modules        |-> {[title |-> curriculum[k].title,
                              order_index |-> curriculum[k].order] :
                             k \in 1..Len(curriculum)},
         lessons        |-> UNION {made(k).lessons : k \in 1..Len(curriculum)},
         lesson_sources |-> UNION {made(k).lesson_sources : k \in 1..Len(curriculum)},
         quiz_questions |-> {},
         user_progress  |-> {}]

NoCurriculum ==
    [modules |-> {}, lessons |-> {}, lesson_sources |-> {},
     quiz_questions |-> {}, user_progress |-> {}]

\* The committed rows of the tables a rebuild writes.
Committed(op) ==
    CASE op = "entities"   -> [entities |-> entities, email_entities |-> email_entities]
      [] op = "tools"      -> [tools |-> tools, tool_mentions |-> tool_mentions]
      [] op = "trends"     -> trend_snapshots
      [] op = "curriculum" -> [modules |-> modules, lessons |-> lessons,
                               lesson_sources |-> lesson_sources,
                               quiz_questions |-> quiz_questions,
                               user_progress |-> user_progress]
      [] OTHER             -> {}

\* The rows a rebuild computes from the emails and their associations.
Rebuilt(op, emails, cats) ==
    CASE op = "entities"   -> EntityTables(emails)
      [] op = "tools"      -> ToolTables(emails)
      [] op = "trends"     -> TrendRows(emails, cats)
      [] op = "curriculum" -> CurriculumTables(emails, cats)
      [] OTHER             -> {}

\* No rebuild is running.
RbIdle == rb_pc \in {"idle", "committed", "terminated"}

\* A rebuild starts: what it will overwrite and what it reads from.
RbBegin(op) ==
    /\ RbIdle
    /\ rb_op' = op
    /\ rb_old' = Committed(op)
    /\ rb_src' = <<emails_tbl, email_categories>>

\* A rebuild's connection has executed DML it has not committed: it holds
\* the write lock of the database file.
TxOpen ==
    \/ rb_pc = "deleted"
    \/ rb_pc = "inserted" /\ (rb_op \in {"trends", "tools"} \/ rb_tx # Rebuilt(rb_op, {}, {}))

\* migrate_emails: an empty store is filled from the file; a store that
\* holds emails is cleared and filled again when the operator answers 'y'
\* and left alone otherwise.  AUTOINCREMENT never gives a rowid twice.
Migrate(answer) ==
    /\ recat_pc = "idle"
    /\ ~TxOpen
    /\ next_id + Len(file) - 1 <= MaxId
    /\ IF emails_tbl # {} /\ answer # "y"
       THEN UNCHANGED <<emails_tbl, email_categories, next_id, embedding>>
       ELSE /\ emails_tbl' = {EmailRow(file[i], next_id + i - 1) : i \in 1..Len(file)}
            /\ embedding' = {}
            /\ email_categories' =
                   UNION {CategoryRows(file[i], next_id + i - 1) : i \in 1..Len(file)}
            /\ next_id' = next_id + Len(file)
    /\ lastOp' = "migrate"
    /\ UNCHANGED <<file, new_emails, total_new, total_duplicates>>
    /\ UNCHANGED <<summVars, aggVars, rbVars, hsVars, trends, quizVars, parseVars, linkVars, ledgerVars>>
    /\ UNCHANGED <<recat_pc, recat_ids, recat_i, recat_response>>

(***************************************************************************)
(* scripts/recategorize_emails.py: the LLM re-categorization pass.         *)
(***************************************************************************)
\* CATEGORY_LIST: three of the twenty-seven labels are kept.
CATEGORY_LIST == {"Claude & Anthropic", "AI Agents", "DeepSeek"}

\* What the classification capability may do for one email: raise, or
\* answer a JSON object with a primary and a list of secondaries.
Responses ==
    { [kind |-> "error", primary |-> "", secondary |-> <<>>],
      [kind |-> "json", primary |-> "AI Agents", secondary |-> <<"Claude & Anthropic">>],
      [kind |-> "json", primary |-> "Bogus", secondary |-> <<"Bogus", "DeepSeek">>],
      [kind |-> "json", primary |-> "DeepSeek",
       secondary |-> <<"DeepSeek", "AI Agents", "Claude & Anthropic">>],
      [kind |-> "json", primary |-> "AI Agents",
       secondary |-> <<"DeepSeek", "DeepSeek">>] }

\* classify_email: the parsed answer, or the fallback of the except branch.
classify_email(response) ==
    IF response.kind = "error"
    THEN [primary |-> Sentinel, secondary |-> <<>>]
    ELSE [primary |-> response.primary, secondary |-> response.secondary]

FirstTwo(s) == SubSeq(s, 1, IF Len(s) < 2 THEN Len(s) ELSE 2)

\* The primary taken as the classifier gave it.
ValidPrimaryUnchecked(primary) == <<primary>>

\* main, "Validate categories": the primary, replaced by the sentinel when
\* it is outside the vocabulary (as the list [primary]).
ValidPrimary(primary) ==
    IF primary \notin CATEGORY_LIST THEN <<Sentinel>> ELSE <<primary>>

\* [s for s in secondary[:2] if s in CATEGORY_LIST and s != primary]
ValidSecondary(secondary, primary) ==
    SelectSeq(FirstTwo(secondary), LAMBDA c : c \in CATEGORY_LIST /\ c # primary)

\* all_cats = [primary] + secondary, after validation.
AllCats(result) ==
    LET primary == ValidPrimary(result.primary)
    IN  primary \o ValidSecondary(result.secondary,
                                  IF primary = <<>> THEN "" ELSE primary[1])

HasRepeat(s) == \E i, j \in 1..Len(s) : i # j /\ s[i] = s[j]

RECURSIVE SortedIds(_)
SortedIds(ids) ==
    IF ids = {} THEN <<>>
    ELSE LET least == CHOOSE x \in ids : \A y \in ids : x <= y
         IN  <<least>> \o SortedIds(ids \ {least})

\* main: SELECT id FROM emails ORDER BY id.
RecatStart ==
    /\ recat_pc = "idle"
    /\ emails_tbl # {}
    /\ recat_pc' = "running"
    /\ recat_ids' = SortedIds({r.id : r \in emails_tbl})
    /\ recat_i' = 0
    /\ recat_response' = <<>>
    /\ lastOp' = "recategorize"
    /\ UNCHANGED <<file, new_emails, total_new, total_duplicates>>
    /\ UNCHANGED <<summVars, aggVars, rbVars, searchVars, trends, quizVars, parseVars, linkVars, ledgerVars>>
    /\ UNCHANGED <<emails_tbl, email_categories, next_id>>

\* One iteration of main's loop: classify, validate, update_email_categories
\* (UPDATE, DELETE, one INSERT per category, commit).  A category repeated in
\* all_cats breaks the primary key of email_categories: the INSERT raises,
\* nothing of the email's transaction is committed and the pass ends.
RecatStep(response) ==
    /\ recat_pc = "running"
    /\ recat_response' = <<response>>
    /\ LET email_id == recat_ids[recat_i + 1]
           all_cats == AllCats(classify_email(response))
       IN  IF HasRepeat(all_cats)
           THEN /\ recat_pc' = "idle"
                /\ UNCHANGED <<emails_tbl, email_categories, recat_i>>
           ELSE /\ emails_tbl' =
                       {IF r.id = email_id
                        THEN [r EXCEPT !.original_categories = all_cats] ELSE r
                        : r \in emails_tbl}
                /\ email_categories' =
                       {c \in email_categories : c.email_id # email_id}
                       \cup {[email_id |-> email_id, category |-> all_cats[k]]
                             : k \in 1..Len(all_cats)}
                /\ recat_i' = recat_i + 1
                /\ recat_pc' = IF recat_i + 1 = Len(recat_ids) THEN "idle" ELSE "running"
    /\ lastOp' = "recategorize"
    /\ UNCHANGED <<file, new_emails, total_new, total_duplicates>>
    /\ UNCHANGED <<summVars, aggVars, rbVars, searchVars, trends, quizVars, parseVars, linkVars, ledgerVars>>
    /\ UNCHANGED <<next_id, recat_ids>>

\* The pass is terminated between two emails.
RecatKill ==
    /\ recat_pc = "running"
    /\ recat_pc' = "idle"
    /\ lastOp' = "recategorize"
    /\ UNCHANGED <<file, new_emails, total_new, total_duplicates>>
    /\ UNCHANGED <<summVars, aggVars, rbVars, searchVars, trends, quizVars, parseVars, linkVars, ledgerVars>>
    /\ UNCHANGED <<emails_tbl, email_categories, next_id, recat_ids, recat_i,
                   recat_response>>

(***************************************************************************)
(* The rebuild operations, one step per statement group between commits.   *)
(***************************************************************************)
\* What a step of a rebuild leaves alone outside the aggregate tables.
RbFrame ==
    /\ lastOp' = "rebuild"
    /\ UNCHANGED <<file, new_emails, total_new, total_duplicates>>
    /\ UNCHANGED <<dbVars, summVars, searchVars, trends, quizVars, parseVars, linkVars, ledgerVars>>

\* populate_entities_table: both tables are deleted from and the deletion
\* is committed.
EntitiesClear ==
    /\ RbBegin("entities")
    /\ entities' = {}
    /\ email_entities' = {}
    /\ rb_tx' = EntityTables({})
    /\ rb_pc' = "cleared"
    /\ RbFrame
    /\ UNCHANGED <<toolVars, trend_snapshots, curriculumVars>>

\* populate_entities_table: the emails are read, the entities extracted and
\* the rows inserted.
EntitiesInsert ==
    /\ rb_op = "entities" /\ rb_pc = "cleared"
    /\ rb_tx' = EntityTables(emails_tbl)
    /\ entities' = Uncommitted(entities, rb_tx'.entities)
    /\ email_entities' = Uncommitted(email_entities, rb_tx'.email_entities)
    /\ rb_pc' = "inserted"
    /\ rb_src' = <<emails_tbl, email_categories>>
    /\ RbFrame
    /\ UNCHANGED <<toolVars, trend_snapshots, curriculumVars, rb_op, rb_old>>

\* populate_entities_table(use_llm=True): the emails are read, the
\* capability is asked for each of them and the rows are inserted.
EntitiesInsertLlm ==
    /\ rb_op = "entities" /\ rb_pc = "cleared"
    /\ \E answers \in [{e.id : e \in emails_tbl} -> LlmAnswers] :
           rb_tx' = EntityTablesLlm(emails_tbl, answers)
    /\ entities' = Uncommitted(entities, rb_tx'.entities)
    /\ email_entities' = Uncommitted(email_entities, rb_tx'.email_entities)
    /\ rb_pc' = "inserted"
    /\ rb_src' = <<emails_tbl, email_categories>>
    /\ RbFrame
    /\ UNCHANGED <<toolVars, trend_snapshots, curriculumVars, rb_op, rb_old>>

\* populate_entities_table: the final commit.
EntitiesCommit ==
    /\ rb_op = "entities" /\ rb_pc = "inserted"
    /\ entities' = rb_tx.entities
    /\ email_entities' = rb_tx.email_entities
    /\ rb_tx' = {}
    /\ rb_pc' = "committed"
    /\ RbFrame
    /\ UNCHANGED <<toolVars, trend_snapshots, curriculumVars, rb_op, rb_old, rb_src>>

\* populate_tools_table: both tables are deleted from.
ToolsDelete ==
    /\ RbBegin("tools")
    /\ rb_tx' = ToolTables({})
    /\ tools' = Uncommitted(tools, rb_tx'.tools)
    /\ tool_mentions' = Uncommitted(tool_mentions, rb_tx'.tool_mentions)
    /\ rb_pc' = "deleted"
    /\ RbFrame
    /\ UNCHANGED <<entityVars, trend_snapshots, curriculumVars>>

\* populate_tools_table: the emails are scanned and the rows inserted.
ToolsInsert ==
    /\ rb_op = "tools" /\ rb_pc = "deleted"
    /\ rb_tx' = ToolTables(emails_tbl)
    /\ tools' = Uncommitted(tools, rb_tx'.tools)
    /\ tool_mentions' = Uncommitted(tool_mentions, rb_tx'.tool_mentions)
    /\ rb_pc' = "inserted"
    /\ rb_src' = <<emails_tbl, email_categories>>
    /\ RbFrame
    /\ UNCHANGED <<entityVars, trend_snapshots, curriculumVars, rb_op, rb_old>>

\* populate_tools_table: the commit.
ToolsCommit ==
    /\ rb_op = "tools" /\ rb_pc = "inserted"
    /\ tools' = rb_tx.tools
    /\ tool_mentions' = rb_tx.tool_mentions
    /\ rb_tx' = {}
    /\ rb_pc' = "committed"
    /\ RbFrame
    /\ UNCHANGED <<entityVars, trend_snapshots, curriculumVars, rb_op, rb_old, rb_src>>

\* build_trend_snapshots: DELETE FROM trend_snapshots.
TrendsDelete ==
    /\ RbBegin("trends")
    /\ rb_tx' = {}
    /\ trend_snapshots' = Uncommitted(trend_snapshots, rb_tx')
    /\ rb_pc' = "deleted"
    /\ RbFrame
    /\ UNCHANGED <<entityVars, toolVars, curriculumVars>>

\* build_trend_snapshots: INSERT ... SELECT.
TrendsInsert ==
    /\ rb_op = "trends" /\ rb_pc = "deleted"
    /\ rb_tx' = rb_tx \cup TrendRows(emails_tbl, email_categories)
    /\ trend_snapshots' = Uncommitted(trend_snapshots, rb_tx')
    /\ rb_pc' = "inserted"
    /\ rb_src' = <<emails_tbl, email_categories>>
    /\ RbFrame
    /\ UNCHANGED <<entityVars, toolVars, curriculumVars, rb_op, rb_old>>

\* build_trend_snapshots: the commit.
TrendsCommit ==
    /\ rb_op = "trends" /\ rb_pc = "inserted"
    /\ trend_snapshots' = rb_tx
    /\ rb_tx' = {}
    /\ rb_pc' = "committed"
    /\ RbFrame
    /\ UNCHANGED <<entityVars, toolVars, curriculumVars, rb_op, rb_old, rb_src>>

\* initialize_curriculum: the five tables are deleted from and the deletion
\* is committed.
CurriculumClear ==
    /\ RbBegin("curriculum")
    /\ modules' = {}
    /\ lessons' = {}
    /\ lesson_sources' = {}
    /\ quiz_questions' = {}
    /\ user_progress' = {}
    /\ rb_tx' = NoCurriculum
    /\ rb_pc' = "cleared"
    /\ RbFrame
    /\ UNCHANGED <<entityVars, toolVars, trend_snapshots>>

\* initialize_curriculum: the curriculum is computed and its modules,
\* lessons and source links are inserted (the tables of the store have the
\* columns the statements of the service name).
CurriculumInsert ==
    /\ rb_op = "curriculum" /\ rb_pc = "cleared"
    /\ rb_tx' = CurriculumTables(emails_tbl, email_categories)
    /\ modules' = Uncommitted(modules, rb_tx'.modules)
    /\ lessons' = Uncommitted(lessons, rb_tx'.lessons)
    /\ lesson_sources' = Uncommitted(lesson_sources, rb_tx'.lesson_sources)
    /\ rb_pc' = "inserted"
    /\ rb_src' = <<emails_tbl, email_categories>>
    /\ RbFrame
    /\ UNCHANGED <<entityVars, toolVars, trend_snapshots, quiz_questions,
                   user_progress, rb_op, rb_old>>

\* initialize_curriculum: the final commit.
CurriculumCommit ==
    /\ rb_op = "curriculum" /\ rb_pc = "inserted"
    /\ modules' = rb_tx.modules
    /\ lessons' = rb_tx.lessons
    /\ lesson_sources' = rb_tx.lesson_sources
    /\ rb_tx' = {}
    /\ rb_pc' = "committed"
    /\ RbFrame
    /\ UNCHANGED <<entityVars, toolVars, trend_snapshots, quiz_questions,
                   user_progress, rb_op, rb_old, rb_src>>

\* The process of a rebuild is terminated: its connection is gone and what
\* it had not committed is rolled back.
RbTerminate ==
    /\ ~RbIdle
    /\ rb_tx' = {}
    /\ rb_pc' = "terminated"
    /\ RbFrame
    /\ UNCHANGED <<aggVars, rb_op, rb_old, rb_src>>

\* The lesson ids a request may name.
LessonIds == {<<RuleTable[k].label, idx>> : k \in 1..Len(RuleTable), idx \in 1..MaxLesson}

\* generate_quiz_llm(topic, lesson_content, num_questions=3)
NumQuestions == 3

\* generate_quiz_fallback: the correct answers of its templates.
FallbackAnswers == <<"B", "A", "B">>

\* The correct answers of the question lists the generation capability
\* answers with: three questions, two, and eight.
GeneratedQuizzes ==
    {<<"A", "B", "C">>, <<"a", "B">>, <<"A", "B", "C", "D", "A", "B", "C", "D">>}

LessonExists(lesson_id) == \E l \in lessons : <<l.module_id, l.order_index>> = lesson_id

\* mark_lesson_complete(lesson_id, score): the table after INSERT OR
\* REPLACE of the row of a lesson that exists; a score of None is <<>>.
ProgressAppended(lesson_id, score) ==
    IF LessonExists(lesson_id)
    THEN user_progress
             \cup {[lesson_id |-> lesson_id, module_id |-> lesson_id[1],
                    status |-> "completed", score |-> score]}
    ELSE user_progress

ProgressAfter(lesson_id, score) ==
    IF LessonExists(lesson_id)
    THEN {p \in user_progress : p.lesson_id # lesson_id}
             \cup {[lesson_id |-> lesson_id, module_id |-> lesson_id[1],
                    status |-> "completed", score |-> score]}
    ELSE user_progress

\* mark_lesson_complete, called by api_complete_lesson with no score: the
\* progress row of a lesson that exists is inserted or replaced; False is
\* returned for a lesson that does not.
mark_lesson_complete(lesson_id) ==
    /\ ~TxOpen
    /\ user_progress' = ProgressAfter(lesson_id, <<>>)
    /\ lastOp' = "learn"
    /\ UNCHANGED <<file, new_emails, total_new, total_duplicates>>
    /\ UNCHANGED <<dbVars, summVars, rbVars, searchVars, trends, quizVars, parseVars, linkVars, ledgerVars>>
    /\ UNCHANGED <<entityVars, toolVars, trend_snapshots, modules, lessons,
                   lesson_sources, quiz_questions>>

\* store_quiz_questions: the questions of the lesson are replaced.
QuestionsStored(lesson_id, answers) ==
    {q \in quiz_questions : q.lesson_id # lesson_id}
        \cup {[lesson_id |-> lesson_id, order_index |-> k, correct_answer |-> answers[k]]
              : k \in 1..Len(answers)}

\* api_get_quiz, where generate_quiz_llm gives the questions with these
\* correct answers: a lesson that exists and has no questions gets them.
QuizAfter(lesson_id, answers) ==
    IF /\ ~\E q \in quiz_questions : q.lesson_id = lesson_id
       /\ LessonExists(lesson_id)
    THEN QuestionsStored(lesson_id, answers)
    ELSE quiz_questions

\* api_get_quiz with no generation client: the fallback questions.
api_get_quiz(lesson_id) ==
    /\ ~TxOpen
    /\ quiz_questions' = QuizAfter(lesson_id, SubSeq(FallbackAnswers, 1, NumQuestions))
    /\ lastOp' = "learn"
    /\ UNCHANGED <<file, new_emails, total_new, total_duplicates>>
    /\ UNCHANGED <<dbVars, summVars, rbVars, searchVars, trends, quizVars, parseVars, linkVars, ledgerVars>>
    /\ UNCHANGED <<entityVars, toolVars, trend_snapshots, modules, lessons,
                   lesson_sources, user_progress>>

\* api_get_quiz with a client that answers a list of questions.
api_get_quiz_generated(lesson_id, answers) ==
    /\ ~TxOpen
    /\ quiz_questions' = QuizAfter(lesson_id, answers)
    /\ lastOp' = "learn"
    /\ UNCHANGED <<file, new_emails, total_new, total_duplicates>>
    /\ UNCHANGED <<dbVars, summVars, rbVars, searchVars, trends, quizVars, parseVars, linkVars, ledgerVars>>
    /\ UNCHANGED <<entityVars, toolVars, trend_snapshots, modules, lessons,
                   lesson_sources, user_progress>>

(***************************************************************************)
(* generate_summaries.py: the enrichment pass over parsed_emails.json.     *)
(***************************************************************************)
\* (i + 1) % 10 == 0: the loop saves the list after every tenth position.
SaveEvery == 10

\* A mutant of NeedsSummary: only an email without the key is selected.
NeedsSummaryKeyAbsent(email) == email.summary = NoSummary

\* A mutant of NeedsSummary: every email is selected.
NeedsSummaryAlways(email) == email.summary = email.summary

\* not email.get('summary'): the key is absent or its value is ''.
NeedsSummary(email) == email.summary = NoSummary \/ email.summary = EmptySummary

\* The body of the loop for position gs_i + 1; ok says whether the
\* capability answered.  An email that has a summary is counted and the
\* rest of the body, the periodic save included, is skipped.
GsBody(ok) ==
    LET i     == gs_i
        email == gs_emails[i + 1]
    IN  IF ~NeedsSummary(email)
        THEN /\ processed' = processed + 1
             /\ UNCHANGED <<gs_emails, gs_called, failed, file>>
        ELSE LET summary == IF ok THEN SummaryText ELSE EmptySummary
                 emails  == [gs_emails EXCEPT ![i + 1].summary = summary]
             IN  /\ gs_emails' = emails
                 /\ gs_called' = gs_called \cup {i + 1}
                 /\ processed' = IF ok THEN processed + 1 ELSE processed
                 /\ failed' = IF ok THEN failed ELSE failed + 1
                 /\ file' = IF (i + 1) % SaveEvery = 0 THEN emails ELSE file

\* json.load, and the counters set to 0.
GsLoad ==
    /\ gs_loaded' = file
    /\ gs_emails' = file
    /\ gs_i' = 0
    /\ gs_called' = {}
    /\ processed' = 0
    /\ failed' = 0
    /\ gs_pc' = "loop"
    /\ lastOp' = "summaries"
    /\ UNCHANGED <<file, new_emails, total_new, total_duplicates>>
    /\ UNCHANGED <<dbVars, aggVars, rbVars, searchVars, trends, quizVars, parseVars, linkVars, ledgerVars>>

\* The pass is started.
GsStart == gs_pc = "idle" /\ GsLoad

\* The pass is started again, after a pass that ended or crashed.
GsAgain == gs_pc \in {"done", "crashed"} /\ GsLoad

\* One iteration of the loop.
GsStep(ok) ==
    /\ gs_pc = "loop"
    /\ gs_i < Len(gs_emails)
    /\ GsBody(ok)
    /\ gs_i' = gs_i + 1
    /\ lastOp' = "summaries"
    /\ UNCHANGED <<gs_pc, gs_loaded, new_emails, total_new, total_duplicates>>
    /\ UNCHANGED <<dbVars, aggVars, rbVars, searchVars, trends, quizVars, parseVars, linkVars, ledgerVars>>

\* The loop is over: the list is saved.
GsFinish ==
    /\ gs_pc = "loop"
    /\ gs_i = Len(gs_emails)
    /\ file' = gs_emails
    /\ gs_pc' = "done"
    /\ lastOp' = "summaries"
    /\ UNCHANGED <<gs_loaded, gs_emails, gs_i, gs_called, processed, failed>>
    /\ UNCHANGED <<new_emails, total_new, total_duplicates>>
    /\ UNCHANGED <<dbVars, aggVars, rbVars, searchVars, trends, quizVars, parseVars, linkVars, ledgerVars>>

\* The process dies inside the loop; gs_emails keeps what it had computed.
GsCrash ==
    /\ gs_pc = "loop"
    /\ gs_pc' = "crashed"
    /\ lastOp' = "summaries"
    /\ UNCHANGED <<gs_loaded, gs_emails, gs_i, gs_called, processed, failed>>
    /\ UNCHANGED <<file, new_emails, total_new, total_duplicates>>
    /\ UNCHANGED <<dbVars, aggVars, rbVars, searchVars, trends, quizVars, parseVars, linkVars, ledgerVars>>

\* The iteration for message j in which the capability answers.
GsSucceed(j) ==
    /\ gs_pc = "loop"
    /\ gs_i = j - 1
    /\ gs_i < Len(gs_emails)
    /\ NeedsSummary(gs_emails[j])
    /\ GsStep(TRUE)

\* The corpora a pass may find: email j of a corpus, with a given summary.
CorpusEmail(j, summary) ==
    [subject    |-> <<ToString(j)>>,
     date       |-> <<"1">>,
     content    |-> {"news"},
     categories |-> categorize_email(<<ToString(j)>>, {"news"}),
     summary    |-> summary]

\* Short corpora, every mix of absent, empty and present summaries.
MixedCorpora ==
    UNION { { [j \in 1..n |-> CorpusEmail(j, v[j])] :
                v \in [1..n -> {NoSummary, EmptySummary, SummaryText}] } :
            n \in 1..MaxMixed }

\* Long corpora as add_mbox runs leave them when the capability failed for
\* every email but at most one.
LongCorpora ==
    { [j \in 1..MaxCorpus |->
          CorpusEmail(j, IF j = p THEN SummaryText ELSE EmptySummary)] :
      p \in 0..MaxCorpus }

(***************************************************************************)
(* services/embeddings.py and services/search.py: retrieval.               *)
(***************************************************************************)
\* The vectors the embedding capability answers with.  Their components
\* are exact in the 4-byte floats embedding_to_blob packs, so that
\* blob_to_embedding gives them back unchanged.
Vectors == {<<1, 0>>, <<0, 1>>, <<3, 4>>}

\* The queries of the searches; none holds a wildcard of LIKE.
Queries == {<<"c", "l">>, <<"A">>, <<"z">>}

\* The limits a search is called with.
MaxLimit == 2
Limits == 1..MaxLimit

\* What the embedding capability does for the query: there is no client
\* (no API key), the call raises, or it answers a vector.
Clients ==
    {[kind |-> "none"], [kind |-> "error"]}
        \cup {[kind |-> "ok", embedding |-> v] : v \in Vectors}

\* The characters of the words bodies are made of.
Spell(w) ==
    CASE w = "claude" -> <<"c", "l", "a", "u", "d", "e">>
      [] w = "agent"  -> <<"a", "g", "e", "n", "t">>
      [] w = "news"   -> <<"n", "e", "w", "s">>
      [] OTHER        -> <<w>>

\* text LIKE '%query%': a substring match that ignores case.
Like(query, text) ==
    \E k \in 0..(Len(text) - Len(query)) :
        SubSeq(Lower(text), k + 1, k + Len(query)) = Lower(query)

\* WHERE subject LIKE ? OR content LIKE ? OR summary LIKE ?
MatchesKeyword(row, query) ==
    \/ Like(query, row.subject)
    \/ \E w \in row.content : Like(query, Spell(w))
    \/ row.summary # "" /\ Like(query, <<row.summary>>)

\* ORDER BY date_parsed DESC: NULL sorts after every date.
DateRank(row) == IF row.date_parsed = <<>> THEN 0 ELSE row.date_parsed[1]

\* s[:n]
Take(s, n) == SubSeq(s, 1, IF Len(s) < n THEN Len(s) ELSE n)

\* keyword_search: the lists the SELECT may return, one for each order the
\* database may give to rows of equal date_parsed; every result has a
\* similarity of None (<<>>).
keyword_search(query, limit) ==
    LET hits == {r \in emails_tbl : MatchesKeyword(r, query)}
        n    == Cardinality(hits)
        orders == {o \in [1..n -> hits] :
                      /\ \A i, j \in 1..n : i # j => o[i] # o[j]
                      /\ \A i, j \in 1..n : i < j => DateRank(o[i]) >= DateRank(o[j])}
    IN  {Take([i \in 1..n |-> [id |-> o[i].id, similarity |-> <<>>]], limit) : o \in orders}

\* The magnitude of a vector.
Norm(v) == CHOOSE n \in 0..5 : n * n = v[1] * v[1] + v[2] * v[2]

\* round(cosine_similarity(a, b), 4), in ten-thousandths.
cosine_similarity(a, b) ==
    IF Norm(a) = 0 \/ Norm(b) = 0 THEN 0
    ELSE ((a[1] * b[1] + a[2] * b[2]) * 10000) \div (Norm(a) * Norm(b))

\* results.sort(key=similarity, reverse=True) on the rows in rowid order:
\* the sort is stable, equal similarities keep the order of the rowids.
RECURSIVE SortBySimilarity(_)
SortBySimilarity(results) ==
    IF results = {} THEN <<>>
    ELSE LET first == CHOOSE r \in results : \A x \in results :
                          \/ r.similarity[1] > x.similarity[1]
                          \/ r.similarity[1] = x.similarity[1] /\ r.id <= x.id
         IN  <<first>> \o SortBySimilarity(results \ {first})

\* semantic_search: the keyword search when there is no client or no query
\* embedding, else the rows that have an embedding by decreasing similarity.
semantic_search(client, query, limit) ==
    IF client.kind # "ok" THEN keyword_search(query, limit)
    ELSE {Take(SortBySimilarity(
                  {[id |-> e.email_id,
                    similarity |-> <<cosine_similarity(client.embedding, e.vector)>>]
                   : e \in embedding}), limit)}

\* One loop of hybrid_search: the results whose id is not in seen_ids are
\* appended with their match type; a keyword match gets similarity 0.0.
\* seen_ids holds the ids of merged.
RECURSIVE AddResultsUnseen(_, _, _)
AddResultsUnseen(merged_so_far, results, match_type) ==
    IF results = <<>> THEN merged_so_far
    ELSE LET result == Head(results)
         IN  AddResultsUnseen(
                 Append(merged_so_far,
                        [id |-> result.id,
                         similarity |-> IF match_type = "keyword" THEN <<0>>
                                        ELSE result.similarity,
                         match_type |-> match_type]),
                 Tail(results), match_type)

RECURSIVE AddResults(_, _, _)
AddResults(merged_so_far, results, match_type) ==
    IF results = <<>> THEN merged_so_far
    ELSE LET result   == Head(results)
             seen_ids == {merged_so_far[i].id : i \in 1..Len(merged_so_far)}
         IN  AddResults(
                 IF result.id \in seen_ids THEN merged_so_far
                 ELSE Append(merged_so_far,
                             [id |-> result.id,
                              similarity |-> IF match_type = "keyword" THEN <<0>>
                                             ELSE result.similarity,
                              match_type |-> match_type]),
                 Tail(results), match_type)

\* The merge with the keyword results first.
MergeKeywordFirst(semantic, keyword, limit) ==
    Take(AddResults(AddResults(<<>>, keyword, "keyword"), semantic, "semantic"), limit)

\* The merge without the cut at the limit.
MergeUncapped(semantic, keyword, limit) ==
    AddResults(AddResults(<<>>, semantic, "semantic"), keyword, "keyword")

\* hybrid_search, from the two result lists on: semantic results first,
\* then the keyword results not seen, cut at the limit.
Merge(semantic, keyword, limit) ==
    Take(AddResults(AddResults(<<>>, semantic, "semantic"), keyword, "keyword"), limit)

\* hybrid_search(query, limit).
hybrid_search(client, query, limit) ==
    /\ \E semantic \in semantic_search(client, query, limit) :
       \E keyword \in keyword_search(query, limit) :
           /\ semantic_results' = semantic
           /\ keyword_results' = keyword
           /\ merged' = Merge(semantic, keyword, limit)
    /\ hs_client' = client
    /\ hs_query' = query
    /\ hs_limit' = limit
    /\ lastOp' = "search"
    /\ UNCHANGED <<file, new_emails, total_new, total_duplicates, embedding>>
    /\ UNCHANGED <<dbVars, summVars, aggVars, rbVars, trends, quizVars, parseVars, linkVars, ledgerVars>>

\* generate_all_embeddings(limit) with a client whose batch call answers:
\* the rows of NULL embedding, the first `limit` of them when a limit is
\* given (0 is None), get the vectors of the answer and are committed.
generate_all_embeddings(limit) ==
    LET missing == {r.id : r \in emails_tbl} \ {e.email_id : e \in embedding}
        ids     == IF limit = 0 THEN missing
                   ELSE {id \in missing : Cardinality({x \in missing : x < id}) < limit}
    IN  /\ ids # {}
        /\ \E answer \in [ids -> Vectors] :
               embedding' = embedding \cup
                                {[email_id |-> id, vector |-> answer[id]] : id \in ids}
        /\ lastOp' = "embed"
        /\ UNCHANGED <<file, new_emails, total_new, total_duplicates, hsVars>>
        /\ UNCHANGED <<dbVars, summVars, aggVars, rbVars, trends, quizVars, parseVars, linkVars, ledgerVars>>

(***************************************************************************)
(* services/analytics.py: trending topics.                                 *)
(***************************************************************************)
\* The largest email_count of a snapshot row.
MaxCount == 111

\* The categories of the snapshots, in the order GROUP BY returns them.
TrendCategories == <<"AI Agents", "DeepSeek">>

\* The arguments get_trending_topics is called with: its defaults.
TrendDays == {7}
TrendLimits == {10}

\* SUM(email_count) over a set of snapshot rows.
RECURSIVE SumCounts(_)
SumCounts(rows) ==
    IF rows = {} THEN 0
    ELSE LET row == CHOOSE x \in rows : TRUE
         IN  row.email_count + SumCounts(rows \ {row})

\* WHERE date >= recent_start, with recent_start = MAX(date) - days.
RecentRows(snapshots, days) ==
    {t \in snapshots : t.date >= Max({x.date : x \in snapshots}) - days}

\* WHERE date >= previous_start AND date < previous_end.
PreviousRows(snapshots, days) ==
    LET max_date == Max({x.date : x \in snapshots})
    IN  {t \in snapshots : t.date >= max_date - 2 * days /\ t.date < max_date - days}

\* The dict of a window: category -> SUM(email_count), for the categories
\* that have a row in the window.
WindowCounts(rows) ==
    [c \in {t.category : t \in rows} |-> SumCounts({t \in rows : t.category = c})]

\* previous.get(category, 0)
GetCount(counts, category) == IF category \in DOMAIN counts THEN counts[category] ELSE 0

\* growth, in percent, as the fraction num / den.  The code computes it in
\* binary floating point; for counts below 1500 the comparisons of the
\* float with 10 and -10 come out as those of the exact quotient.
Growth(prev_count, recent_count) ==
    IF prev_count > 0
    THEN [num |-> (recent_count - prev_count) * 100, den |-> prev_count]
    ELSE IF recent_count > 0 THEN [num |-> 100, den |-> 1]
    ELSE [num |-> 0, den |-> 1]

\* The label with the two bounds included.
TrendOfInclusive(growth) ==
    IF growth.num >= 10 * growth.den THEN "up"
    ELSE IF growth.num <= -10 * growth.den THEN "down"
    ELSE "stable"

\* 'up' if growth > 10 else ('down' if growth < -10 else 'stable')
TrendOf(growth) ==
    IF growth.num > 10 * growth.den THEN "up"
    ELSE IF growth.num < -10 * growth.den THEN "down"
    ELSE "stable"

Abs(x) == IF x < 0 THEN -x ELSE x

\* round(growth, 1), in tenths of a percent: the nearest tenth; where the
\* exact quotient is halfway between two tenths, the float rounds to one
\* of the two.
RoundTenths(growth) ==
    LET f == (growth.num * 10) \div growth.den
    IN  {t \in {f, f + 1} : 2 * Abs(growth.num * 10 - t * growth.den) <= growth.den}

\* The position of a category in the order of the dict.
CategoryIndex(category) ==
    CHOOSE i \in 1..Len(TrendCategories) : TrendCategories[i] = category

\* trends.sort(key=growth_percent, reverse=True): a stable sort.
RECURSIVE SortByGrowth(_)
SortByGrowth(entries) ==
    IF entries = {} THEN <<>>
    ELSE LET first == CHOOSE e \in entries : \A x \in entries :
                          \/ e.growth_percent > x.growth_percent
                          \/ /\ e.growth_percent = x.growth_percent
                             /\ CategoryIndex(e.category) <= CategoryIndex(x.category)
         IN  <<first>> \o SortByGrowth(entries \ {first})

\* get_trending_topics(days, limit): [] for an empty table, else one entry
\* for each category of the recent window.
get_trending_topics(days, limit) ==
    /\ IF trend_snapshots = {}
       THEN trends' = <<>>
       ELSE LET recent   == WindowCounts(RecentRows(trend_snapshots, days))
                previous == WindowCounts(PreviousRows(trend_snapshots, days))
                growth(c) == Growth(GetCount(previous, c), recent[c])
            IN  \E rounded \in [DOMAIN recent ->
                                    UNION {RoundTenths(growth(c)) : c \in DOMAIN recent}] :
                    /\ \A c \in DOMAIN recent : rounded[c] \in RoundTenths(growth(c))
                    /\ trends' = Take(SortByGrowth(
                           {[category       |-> c,
                             recent_count   |-> recent[c],
                             previous_count |-> GetCount(previous, c),
                             growth_percent |-> rounded[c],
                             trend          |-> TrendOf(growth(c))] : c \in DOMAIN recent}),
                           limit)
    /\ lastOp' = "trending"
    /\ UNCHANGED <<file, new_emails, total_new, total_duplicates>>
    /\ UNCHANGED <<dbVars, summVars, aggVars, rbVars, searchVars, quizVars, parseVars, linkVars, ledgerVars>>

(***************************************************************************)
(* services/quiz.py and routes/learning.py: grading a submission.          *)
(***************************************************************************)
\* str.upper() on the letters of the answers.
UpperChar(c) ==
    CASE c = "a" -> "A"
      [] c = "b" -> "B"
      [] c = "c" -> "C"
      [] c = "d" -> "D"
      [] OTHER   -> c

\* An answer value of the request that is not a string (a JSON number).
NotAString == "<number>"

\* The answers of a submission, by question: a sequence answers questions
\* 1..n of the lesson, in that order.
AnswerMaps ==
    { <<"A", "B", "D">>, <<"a", "b", "c">>, <<"A", "B", "C">>, <<"B", "A", "B">>,
      <<"A">>, <<>>, <<"A", NotAString>>, <<"D", "D", "D">> }

\* The bodies of a request: none, the empty object, an object without
\* 'answers', 'answers' that is a list, and 'answers' that is an object.
Payloads ==
    {[kind |-> "none"], [kind |-> "empty"], [kind |-> "no_answers"], [kind |-> "list"]}
        \cup {[kind |-> "mapping", answers |-> m] : m \in AnswerMaps}

\* get_quiz_for_lesson
Questions(lesson_id) == {q \in quiz_questions : q.lesson_id = lesson_id}

\* answers.get(str(q['id']), '')
UserAnswer(answers, q) ==
    IF q.order_index \in DOMAIN answers THEN answers[q.order_index] ELSE ""

\* round(x) for x = num / den: to the nearest whole number, a half to the
\* even one.  For totals below 40 the float (correct / total) * 100 rounds
\* as the exact quotient does.
RoundDown(num, den) == num \div den

RoundHalfEven(num, den) ==
    LET f == num \div den
        twice == 2 * (num - f * den)
    IN  IF twice > den THEN f + 1
        ELSE IF twice < den THEN f
        ELSE IF f % 2 = 0 THEN f ELSE f + 1

\* 'passed': score >= 70
PassMark == 70

\* grade_quiz(lesson_id, answers): the error result for a lesson with no
\* questions; an AttributeError where answers has no get or a user answer
\* has no upper; else the score.
grade_quiz(lesson_id, payload) ==
    LET questions == Questions(lesson_id)
        total     == Cardinality(questions)
    IN  IF questions = {} THEN [kind |-> "error"]
        ELSE IF payload.kind = "list" THEN [kind |-> "raise"]
        ELSE IF \E q \in questions : UserAnswer(payload.answers, q) = NotAString
        THEN [kind |-> "raise"]
        ELSE LET correct == Cardinality({q \in questions :
                                UpperChar(UserAnswer(payload.answers, q))
                                    = UpperChar(q.correct_answer)})
                 score   == RoundHalfEven(correct * 100, total)
             IN  [kind |-> "graded", score |-> score, correct |-> correct,
                  total |-> total, passed |-> score >= PassMark]

\* api_submit_quiz: 400 without a body or without 'answers'; else the
\* submission is graded and a passed lesson is marked complete with its
\* score.  An exception of grade_quiz is answered with status 500.
api_submit_quiz(lesson_id, payload) ==
    /\ ~TxOpen
    /\ sq_lesson' = lesson_id
    /\ sq_payload' = payload
    /\ IF payload.kind \in {"none", "empty", "no_answers"}
       THEN /\ sq_status' = 400
            /\ sq_result' = [kind |-> "none"]
            /\ UNCHANGED user_progress
       ELSE LET result == grade_quiz(lesson_id, payload)
            IN  /\ sq_result' = result
                /\ sq_status' = IF result.kind = "raise" THEN 500 ELSE 200
                /\ user_progress' =
                       IF result.kind = "graded" /\ result.passed
                       THEN ProgressAfter(lesson_id, <<result.score>>)
                       ELSE user_progress
    /\ lastOp' = "submit"
    /\ UNCHANGED <<file, new_emails, total_new, total_duplicates>>
    /\ UNCHANGED <<dbVars, summVars, rbVars, searchVars, trends, parseVars, linkVars, ledgerVars>>
    /\ UNCHANGED <<entityVars, toolVars, trend_snapshots, modules, lessons,
                   lesson_sources, quiz_questions>>

(***************************************************************************)
(* parse_mbox.py: the records of an archive, with their bodies as text.    *)
(* A body is a sequence of words, spaces and separator lines.              *)
(***************************************************************************)
MaxRecords == 3        \* records of the archive the script parses

Separator == "-------------------------------------------------"

MboxRecord(s, d, b, m) == [subject |-> s, date |-> d, body |-> b, malformed |-> m]

\* A message; a record with neither subject nor text before the separator;
\* a record without subject whose text ends at the separator; a record
\* without body; a record whose processing raises; a record whose subject is
\* a space.
MboxRecords ==
    { MboxRecord(<<"a">>, <<"1">>, <<"news">>, FALSE),
      MboxRecord(<<>>,    <<"2">>, <<" ", Separator, "claude">>, FALSE),
      MboxRecord(<<>>,    <<"3">>, <<"claude", " ", Separator, "agent">>, FALSE),
      MboxRecord(<<"b">>, <<"2">>, <<>>, FALSE),
      MboxRecord(<<"c">>, <<"1">>, <<"agent">>, TRUE),
      MboxRecord(<<" ">>, <<"3">>, <<>>, FALSE) }

MboxArchives == SeqsUpTo(MboxRecords, MaxRecords)

\* content.split(separator)[0]
RECURSIVE BeforeSeparator(_)
BeforeSeparator(body) ==
    IF body = <<>> \/ Head(body) = Separator THEN <<>>
    ELSE <<Head(body)>> \o BeforeSeparator(Tail(body))

\* content.split(separator)[0].strip()
ProcessedBody(body) == Strip(BeforeSeparator(body))

\* The words of a text, which the rules of categorize_email look for.
Keywords(text) == {text[i] : i \in {j \in 1..Len(text) : ~IsSpace(text[j])}}

\* A record as the loop of parse_mbox_file sees it after the body is cut.
ReadRecord(rec) ==
    [subject   |-> rec.subject,
     date      |-> rec.date,
     content   |-> Keywords(ProcessedBody(rec.body)),
     malformed |-> rec.malformed]

\* parse_mbox.py run as a script on the archive of attached_assets.
ParseAttached ==
    /\ file' = parse_mbox_file([i \in 1..Len(mbox) |-> ReadRecord(mbox[i])])
    /\ lastOp' = "parse"
    /\ UNCHANGED <<new_emails, total_new, total_duplicates>>
    /\ UNCHANGED dbVars
    /\ UNCHANGED <<summVars, aggVars, rbVars, searchVars, trends, quizVars, parseVars,
                   linkVars, ledgerVars>>

(***************************************************************************)
(* services/link_enricher.py: metadata of the links.                       *)
(* A row of email_links is [id, url, title, description, content_excerpt,  *)
(* fetch_status]; None is <<>>.  The column fetched_at, the time of the    *)
(* update, is left out.                                                    *)
(***************************************************************************)
MaxLinks == 2          \* rows of email_links

\* The links: a web page, a post on x.com, an address on x.com that names
\* no user, and a t.co redirect.
Urls == {"https://example.com/a", "https://x.com/user/status/1", "https://x.com/",
         "https://t.co/abc"}

\* get_domain(url)
get_domain(url) ==
    CASE url = "https://example.com/a"       -> "example.com"
      [] url = "https://x.com/user/status/1" -> "x.com"
      [] url = "https://x.com/"              -> "x.com"
      [] url = "https://t.co/abc"            -> "t.co"

\* What fetch_url_metadata may return for a url: the metadata of the page
\* (any of its three fields may be None) with the final url, or a failure:
\* a timeout, an HTTP error, an error while parsing.
FinalUrls(url) == IF get_domain(url) = "t.co" THEN Urls \ {url} ELSE {url}

fetch_url_metadata(url) ==
    {[title |-> <<"t">>, description |-> <<"d">>, content_excerpt |-> <<"x">>,
      final_url |-> f, status |-> "success"] : f \in FinalUrls(url)}
    \cup {[title |-> <<>>, description |-> <<>>, content_excerpt |-> <<>>,
           final_url |-> f, status |-> "success"] : f \in FinalUrls(url)}
    \cup {[status |-> "failed", error |-> e] : e \in {"timeout", "http_500", "404", "parse"}}

\* extract_twitter_info(url)
extract_twitter_info(url) ==
    IF url = "https://x.com/user/status/1"
    THEN [title |-> <<"@user tweet #1">>, description |-> <<"Twitter/X post by @user">>,
          content_excerpt |-> <<>>, status |-> "success"]
    ELSE [status |-> "skipped", error |-> "could not parse twitter url"]

\* result.get(key): None for a key the dict lacks.
ResultGet(result, key) == IF key \in DOMAIN result THEN result[key] ELSE <<>>

\* result.update(other)
ResultUpdate(result, other) ==
    [k \in DOMAIN result \cup DOMAIN other |->
        IF k \in DOMAIN other THEN other[k] ELSE result[k]]

\* The results enrich_single_link may come to for a url.
EnrichResults(url) ==
    IF get_domain(url) \in {"twitter.com", "x.com", "t.co"}
    THEN IF get_domain(url) = "t.co"
         THEN {IF result.status = "success" /\ get_domain(result.final_url) = "x.com"
               THEN ResultUpdate(result, extract_twitter_info(result.final_url))
               ELSE result : result \in fetch_url_metadata(url)}
         ELSE {extract_twitter_info(url)}
    ELSE fetch_url_metadata(url)

\* The UPDATE of enrich_single_link.
LinkUpdated(link, result) ==
    [link EXCEPT !.title = ResultGet(result, "title"),
                 !.description = ResultGet(result, "description"),
                 !.content_excerpt = ResultGet(result, "content_excerpt"),
                 !.fetch_status = <<result.status>>]

\* enrich_single_link(link_id, url), with the result it came to.
enrich_single_link(link_id, result) ==
    /\ \E link \in email_links :
           /\ link.id = link_id
           /\ result \in EnrichResults(link.url)
    /\ email_links' = {IF link.id = link_id THEN LinkUpdated(link, result) ELSE link
                       : link \in email_links}
    /\ lastOp' = "enrich_link"
    /\ UNCHANGED <<file, new_emails, total_new, total_duplicates>>
    /\ UNCHANGED dbVars
    /\ UNCHANGED <<summVars, aggVars, rbVars, searchVars, trends, quizVars, parseVars,
                   ledgerVars>>

\* WHERE fetch_status = 'pending' OR fetch_status IS NULL LIMIT ?
PendingLinks(links, limit) ==
    LET pending == {l \in links : l.fetch_status = <<"pending">> \/ l.fetch_status = <<>>}
    IN  {l \in pending : Cardinality({x \in pending : x.id < l.id}) < limit}

\* enrich_pending_links(limit): the selected links are enriched in turn.
\* The line printed for a success slices result.get('title', ''), which is
\* None for a page without title: the pass ends there with a TypeError,
\* after the update of that link.
enrich_pending_links(limit) ==
    LET links == PendingLinks(email_links, limit)
    IN  /\ \E results \in [{l.id : l \in links} ->
                               UNION {EnrichResults(l.url) : l \in links}] :
               LET raises(l) == /\ results[l.id].status = "success"
                                /\ ResultGet(results[l.id], "title") = <<>>
                   reached == {l \in links :
                                   \A x \in links : x.id < l.id => ~raises(x)}
               IN  /\ \A l \in links : results[l.id] \in EnrichResults(l.url)
                   /\ email_links' =
                          {IF l \in reached THEN LinkUpdated(l, results[l.id]) ELSE l
                           : l \in email_links}
        /\ lastOp' = "enrich_links"
        /\ UNCHANGED <<file, new_emails, total_new, total_duplicates>>
        /\ UNCHANGED dbVars
        /\ UNCHANGED <<summVars, aggVars, rbVars, searchVars, trends, quizVars, parseVars,
                       ledgerVars>>

(***************************************************************************)
(* add_mbox.main, file by file, with the ledger of processed files.        *)
(***************************************************************************)
\* attached_assets/*.mbox: three archives, the third with a message of the
\* first in another case.
AttachedAssets ==
    [f \in {"attached_assets/a.mbox", "attached_assets/b.mbox", "attached_assets/c.mbox"} |->
        CASE f = "attached_assets/a.mbox" -> << Raw(<<"a">>, <<"1">>, {"news"}) >>
          [] f = "attached_assets/b.mbox" -> << Raw(<<"b">>, <<"2">>, {"agent"}) >>
          [] f = "attached_assets/c.mbox" -> << Raw(<<"A">>, <<"1", " ">>, {"claude"}),
                                                Raw(<<"a", " ">>, <<"1">>, {"claude", "agent"}) >>]

\* find_new_mbox_files: the files of attached_assets the ledger lacks.
find_new_mbox_files == DOMAIN AttachedAssets \ processed_files

\* The orders glob.glob may list a set of files in.
Orderings(files) ==
    {q \in SeqsUpTo(files, Cardinality(files)) :
         Len(q) = Cardinality(files) /\ {q[i] : i \in 1..Len(q)} = files}

\* The start of a run: the corpus is loaded, the new files are found and
\* the files to process are selected: the one new file, or all of them, or
\* the one the user names.  A run without new files returns at once.
AmStart ==
    /\ am_pc = "idle"
    /\ find_new_mbox_files # {}
    /\ am_existing' = file
    /\ \/ \E selected \in Orderings(find_new_mbox_files) : am_selected' = selected
       \/ /\ Cardinality(find_new_mbox_files) > 1
          /\ \E f \in find_new_mbox_files : am_selected' = <<f>>
    /\ am_pc' = "files"
    /\ UNCHANGED <<fileVars, processed_files>>
    /\ UNCHANGED dbVars
    /\ UNCHANGED <<summVars, aggVars, rbVars, searchVars, trends, quizVars, parseVars,
                   linkVars>>

\* One iteration of the loop over the selected files: parse, deduplicate,
\* summarize, extend existing_emails, then mark_file_processed, which
\* rewrites processed_mbox_files.json.
AmProcessFile ==
    /\ am_pc = "files"
    /\ am_selected # <<>>
    /\ LET mbox_file == Head(am_selected)
           st        == DedupRun(am_existing, ParsedArchive[AttachedAssets[mbox_file]])
       IN  /\ \E ok \in [1..Len(st.unique_new) -> BOOLEAN] :
                  am_existing' = SavedCorpus(am_existing, st.unique_new, ok)
           /\ processed_files' = processed_files \cup {mbox_file}
    /\ am_selected' = Tail(am_selected)
    /\ UNCHANGED <<fileVars, am_pc>>
    /\ UNCHANGED dbVars
    /\ UNCHANGED <<summVars, aggVars, rbVars, searchVars, trends, quizVars, parseVars,
                   linkVars>>

\* "Step 4": existing_emails is written to parsed_emails.json.
AmSave ==
    /\ am_pc = "files"
    /\ am_selected = <<>>
    /\ file' = am_existing
    /\ lastOp' = "add_mbox"
    /\ am_pc' = "idle"
    /\ am_existing' = <<>>
    /\ UNCHANGED <<new_emails, total_new, total_duplicates, processed_files, am_selected>>
    /\ UNCHANGED dbVars
    /\ UNCHANGED <<summVars, aggVars, rbVars, searchVars, trends, quizVars, parseVars,
                   linkVars>>

\* The run is terminated: what it held in memory is lost.
AmTerminate ==
    /\ am_pc = "files"
    /\ am_pc' = "idle"
    /\ am_selected' = <<>>
    /\ am_existing' = <<>>
    /\ lastOp' = "terminated"
    /\ UNCHANGED <<file, new_emails, total_new, total_duplicates, processed_files>>
    /\ UNCHANGED dbVars
    /\ UNCHANGED <<summVars, aggVars, rbVars, searchVars, trends, quizVars, parseVars,
                   linkVars>>

(***************************************************************************)
(* Specifications.                                                         *)
(***************************************************************************)
InitFile ==
    /\ file = <<>>
    /\ new_emails = <<>>
    /\ total_new = 0
    /\ total_duplicates = 0
    /\ lastOp = "init"

InitDb ==
    /\ emails_tbl = {}
    /\ email_categories = {}
    /\ next_id = 1
    /\ recat_pc = "idle"
    /\ recat_ids = <<>>
    /\ recat_i = 0
    /\ recat_response = <<>>

InitSumm ==
    /\ gs_pc = "idle"
    /\ gs_loaded = <<>>
    /\ gs_emails = <<>>
    /\ gs_i = 0
    /\ gs_called = {}
    /\ processed = 0
    /\ failed = 0

InitAgg ==
    /\ entities = {}
    /\ email_entities = {}
    /\ tools = {}
    /\ tool_mentions = {}
    /\ trend_snapshots = {}
    /\ modules = {}
    /\ lessons = {}
    /\ lesson_sources = {}
    /\ quiz_questions = {}
    /\ user_progress = {}
    /\ rb_op = "none"
    /\ rb_pc = "idle"
    /\ rb_tx = {}
    /\ rb_old = {}
    /\ rb_src = {}

InitSearch ==
    /\ embedding = {}
    /\ hs_client = [kind |-> "none"]
    /\ hs_query = <<>>
    /\ hs_limit = 0
    /\ semantic_results = <<>>
    /\ keyword_results = <<>>
    /\ merged = <<>>
    /\ trends = <<>>
    /\ sq_lesson = <<>>
    /\ sq_payload = [kind |-> "none"]
    /\ sq_status = 0
    /\ sq_result = [kind |-> "none"]

\* No archive parsed, no link stored, an empty ledger and no run of add_mbox.
InitIdle ==
    /\ mbox = <<>>
    /\ email_links = {}
    /\ processed_files = {}
    /\ am_pc = "idle"
    /\ am_selected = <<>>
    /\ am_existing = <<>>

\* The merger alone, from an empty corpus.
InitMerge == InitFile /\ InitDb /\ InitSumm /\ InitAgg /\ InitSearch /\ InitIdle

NextMerge == \E archive \in Archives : AddMbox(archive)

SpecMerge == InitMerge /\ [][NextMerge]_vars

\* The write operations of the corpus: the initial parse, the merges, the
\* migration into the store.
Init == InitFile /\ InitDb /\ InitSumm /\ InitAgg /\ InitSearch /\ InitIdle

Next ==
    \/ \E archive \in StoreArchives : ParseMain(archive)
    \/ \E archive \in StoreArchives : AddMboxUnobserved(archive)
    \/ \E answer \in {"y", "N"} : Migrate(answer)

Spec == Init /\ [][Next]_vars

\* Normalization, migration and re-categorization passes.
NextCategories ==
    \/ \E archive \in StoreArchives : ParseMain(archive)
    \/ \E answer \in {"y", "N"} : Migrate(answer)
    \/ RecatStart
    \/ \E response \in Responses : RecatStep(response)
    \/ RecatKill

SpecCategories == Init /\ [][NextCategories]_vars

\* The entity rebuild over the stores migrated from a growing mailbox.
NextEntities ==
    \/ \E archive \in MailboxExports : ParseMain(archive)
    \/ \E answer \in {"y", "N"} : Migrate(answer)
    \/ EntitiesClear
    \/ EntitiesInsert
    \/ EntitiesCommit
    \/ RbTerminate

SpecEntities == Init /\ [][NextEntities]_vars

\* The curriculum, its regeneration and the learner's requests.
NextCurriculum ==
    \/ \E archive \in MailboxExports : ParseMain(archive)
    \/ \E answer \in {"y", "N"} : Migrate(answer)
    \/ CurriculumClear
    \/ CurriculumInsert
    \/ CurriculumCommit
    \/ RbTerminate
    \/ \E lesson_id \in LessonIds : mark_lesson_complete(lesson_id)
    \/ \E lesson_id \in LessonIds : api_get_quiz(lesson_id)

SpecCurriculum == Init /\ [][NextCurriculum]_vars

\* The trend-snapshot rebuild and the tool rebuild.
NextAggregates ==
    \/ \E archive \in MailboxExports : ParseMain(archive)
    \/ \E answer \in {"y", "N"} : Migrate(answer)
    \/ TrendsDelete
    \/ TrendsInsert
    \/ TrendsCommit
    \/ ToolsDelete
    \/ ToolsInsert
    \/ ToolsCommit
    \/ RbTerminate

SpecAggregates == Init /\ [][NextAggregates]_vars

\* Enrichment passes over a short corpus.
InitSummaries ==
    /\ file \in MixedCorpora
    /\ new_emails = <<>>
    /\ total_new = 0
    /\ total_duplicates = 0
    /\ lastOp = "init"
    /\ InitDb /\ InitSumm /\ InitAgg /\ InitSearch /\ InitIdle

NextSummaries ==
    \/ GsStart
    \/ GsAgain
    \/ \E ok \in BOOLEAN : GsStep(ok)
    \/ GsFinish
    \/ GsCrash

SpecSummaries == InitSummaries /\ [][NextSummaries]_vars

\* One enrichment pass over a long corpus, and where it may crash.
InitCrash ==
    /\ file \in LongCorpora
    /\ new_emails = <<>>
    /\ total_new = 0
    /\ total_duplicates = 0
    /\ lastOp = "init"
    /\ InitDb /\ InitSumm /\ InitAgg /\ InitSearch /\ InitIdle

NextCrash ==
    \/ GsStart
    \/ \E ok \in BOOLEAN : GsStep(ok)
    \/ GsFinish
    \/ GsCrash

SpecCrash == InitCrash /\ [][NextCrash]_vars

\* Merges and enrichment passes, one process at a time, over a corpus that
\* starts as the initial parse of an archive left it.
InitEnrich ==
    /\ file \in {ParsedArchive[archive] : archive \in StoreArchives}
    /\ new_emails = <<>>
    /\ total_new = 0
    /\ total_duplicates = 0
    /\ lastOp = "init"
    /\ InitDb /\ InitSumm /\ InitAgg /\ InitSearch /\ InitIdle

NextEnrich ==
    \/ \E archive \in StoreArchives : AddMboxAlone(archive)
    \/ GsStart
    \/ GsAgain
    \/ \E ok \in BOOLEAN : GsStep(ok)
    \/ GsFinish
    \/ GsCrash

SpecEnrich == InitEnrich /\ [][NextEnrich]_vars

\* The operations that write emails and the rows that reference them:
\* migration, the entity rebuild, the tool rebuild and the regeneration of
\* the curriculum.
NextStore ==
    \/ \E archive \in MailboxExports : ParseMain(archive)
    \/ \E answer \in {"y", "N"} : Migrate(answer)
    \/ EntitiesClear
    \/ EntitiesInsert
    \/ EntitiesCommit
    \/ ToolsDelete
    \/ ToolsInsert
    \/ ToolsCommit
    \/ CurriculumClear
    \/ CurriculumInsert
    \/ CurriculumCommit
    \/ RbTerminate

SpecStore == Init /\ [][NextStore]_vars

\* The entity rebuild in pattern mode and in LLM mode.
NextEntitiesLlm ==
    \/ \E archive \in MailboxExports : ParseMain(archive)
    \/ \E answer \in {"y", "N"} : Migrate(answer)
    \/ EntitiesClear
    \/ EntitiesInsert
    \/ EntitiesInsertLlm
    \/ EntitiesCommit
    \/ RbTerminate

SpecEntitiesLlm == Init /\ [][NextEntitiesLlm]_vars


\* A re-categorization pass that nothing outside interrupts: the store is
\* filled, then main runs its loop over every email id.
NextRecat ==
    \/ \E archive \in StoreArchives : ParseMain(archive)
    \/ \E answer \in {"y", "N"} : Migrate(answer)
    \/ RecatStart
    \/ \E response \in Responses : RecatStep(response)

SpecRecat == Init /\ [][NextRecat]_vars


\* The archives the searched stores were migrated from: the exports of the
\* mailbox, and an archive of two messages of one date.
SearchArchives ==
    MailboxExports
        \cup {<<Raw(<<"a">>, <<"1">>, {"news"}), Raw(<<"a", " ">>, <<"1">>, {"claude", "agent"})>>}

\* A store as parse_mbox and a first migration leave it, no row embedded.
InitRetrieval ==
    /\ \E archive \in SearchArchives :
           LET parsed == ParsedArchive[archive]
           IN  /\ file = parsed
               /\ emails_tbl = {EmailRow(parsed[i], i) : i \in 1..Len(parsed)}
               /\ email_categories = UNION {CategoryRows(parsed[i], i) : i \in 1..Len(parsed)}
               /\ next_id = Len(parsed) + 1
    /\ new_emails = <<>>
    /\ total_new = 0
    /\ total_duplicates = 0
    /\ lastOp = "migrate"
    /\ recat_pc = "idle"
    /\ recat_ids = <<>>
    /\ recat_i = 0
    /\ recat_response = <<>>
    /\ InitSumm /\ InitAgg /\ InitSearch /\ InitIdle

\* Searches over a store that is embedded, in part or in whole, and searched.
NextSearch ==
    \/ \E limit \in {0, 1} : generate_all_embeddings(limit)
    \/ \E client \in Clients, query \in Queries, limit \in Limits :
           hybrid_search(client, query, limit)

SpecSearch == InitRetrieval /\ [][NextSearch]_vars


\* The snapshots of a store too large to enumerate: a category with counts
\* up to MaxCount in the recent window and the one before it, and another
\* category with rows in neither, the earlier or the recent window, or on
\* the day the recent window starts.
InitTrending ==
    /\ InitFile /\ InitDb /\ InitSumm /\ InitSearch /\ InitIdle
    /\ \E p \in 0..MaxCount, r \in 1..MaxCount, other \in {"none", "previous", "recent", "start"} :
           trend_snapshots =
               {[date |-> 10, category |-> TrendCategories[1], email_count |-> r]}
               \cup (IF p > 0
                     THEN {[date |-> 1, category |-> TrendCategories[1], email_count |-> p]}
                     ELSE {})
               \cup (IF other = "previous"
                     THEN {[date |-> 1, category |-> TrendCategories[2], email_count |-> 5]}
                     ELSE IF other = "recent"
                     THEN {[date |-> 9, category |-> TrendCategories[2], email_count |-> 5]}
                     ELSE IF other = "start"
                     THEN {[date |-> 3, category |-> TrendCategories[2], email_count |-> 5]}
                     ELSE {})
    /\ entities = {}
    /\ email_entities = {}
    /\ tools = {}
    /\ tool_mentions = {}
    /\ modules = {}
    /\ lessons = {}
    /\ lesson_sources = {}
    /\ quiz_questions = {}
    /\ user_progress = {}
    /\ rb_op = "none"
    /\ rb_pc = "idle"
    /\ rb_tx = {}
    /\ rb_old = {}
    /\ rb_src = {}

NextTrending ==
    \E days \in TrendDays, limit \in TrendLimits : get_trending_topics(days, limit)

SpecTrending == InitTrending /\ [][NextTrending]_vars


\* The lessons the requests of the learner name: the two first lessons of
\* the first module, and a lesson that does not exist.
QuizLessonIds ==
    {<<RuleTable[1].label, 1>>, <<RuleTable[1].label, 2>>, <<RuleTable[2].label, 1>>}

\* A store whose curriculum was built from the whole mailbox.
InitQuiz ==
    /\ LET parsed == ParsedArchive[Mailbox]
           emails == {EmailRow(parsed[i], i) : i \in 1..Len(parsed)}
           cats   == UNION {CategoryRows(parsed[i], i) : i \in 1..Len(parsed)}
           built  == CurriculumTables(emails, cats)
       IN  /\ file = parsed
           /\ emails_tbl = emails
           /\ email_categories = cats
           /\ next_id = Len(parsed) + 1
           /\ modules = built.modules
           /\ lessons = built.lessons
           /\ lesson_sources = built.lesson_sources
    /\ quiz_questions = {}
    /\ user_progress = {}
    /\ new_emails = <<>>
    /\ total_new = 0
    /\ total_duplicates = 0
    /\ lastOp = "rebuild"
    /\ recat_pc = "idle"
    /\ recat_ids = <<>>
    /\ recat_i = 0
    /\ recat_response = <<>>
    /\ entities = {}
    /\ email_entities = {}
    /\ tools = {}
    /\ tool_mentions = {}
    /\ trend_snapshots = {}
    /\ rb_op = "none"
    /\ rb_pc = "idle"
    /\ rb_tx = {}
    /\ rb_old = {}
    /\ rb_src = {}
    /\ InitSumm /\ InitSearch /\ InitIdle

\* The requests of the learner.
NextQuiz ==
    \/ \E lesson_id \in QuizLessonIds : api_get_quiz(lesson_id)
    \/ \E lesson_id \in QuizLessonIds, answers \in GeneratedQuizzes :
           api_get_quiz_generated(lesson_id, answers)
    \/ \E lesson_id \in QuizLessonIds : mark_lesson_complete(lesson_id)
    \/ \E lesson_id \in QuizLessonIds, payload \in Payloads :
           api_submit_quiz(lesson_id, payload)

SpecQuiz == InitQuiz /\ [][NextQuiz]_vars

\* The parser alone, on every archive of the bound.
InitParse ==
    /\ InitFile /\ InitDb /\ InitSumm /\ InitAgg /\ InitSearch
    /\ mbox \in MboxArchives
    /\ email_links = {}
    /\ processed_files = {}
    /\ am_pc = "idle"
    /\ am_selected = <<>>
    /\ am_existing = <<>>

NextParse == ParseAttached

SpecParse == InitParse /\ [][NextParse]_vars

\* The links of a migrated store, none fetched yet, and the passes over them.
InitLinks ==
    /\ InitFile /\ InitDb /\ InitSumm /\ InitAgg /\ InitSearch
    /\ mbox = <<>>
    /\ \E n \in 1..MaxLinks :
       \E url \in [1..n -> Urls], status \in [1..n -> {<<>>, <<"pending">>}] :
           email_links = {[id |-> i, url |-> url[i], title |-> <<>>, description |-> <<>>,
                           content_excerpt |-> <<>>, fetch_status |-> status[i]]
                          : i \in 1..n}
    /\ processed_files = {}
    /\ am_pc = "idle"
    /\ am_selected = <<>>
    /\ am_existing = <<>>

NextLinks ==
    \/ \E limit \in 1..MaxLinks : enrich_pending_links(limit)
    \/ \E link_id \in 1..MaxLinks, result \in UNION {EnrichResults(url) : url \in Urls} :
           enrich_single_link(link_id, result)

SpecLinks == InitLinks /\ [][NextLinks]_vars

\* Runs of add_mbox over the archives of attached_assets, any of which may
\* be terminated.
NextLedger == AmStart \/ AmProcessFile \/ AmSave \/ AmTerminate

SpecLedger == Init /\ [][NextLedger]_vars

\* Enrichment passes that run to their end and are repeated, over a corpus
\* that starts without any summary, with a capability that, for each
\* message, answers in the end: a call that is made again and again does
\* not fail forever.
InitConverge ==
    /\ file \in {c \in MixedCorpora : \A i \in 1..Len(c) : NeedsSummary(c[i])}
    /\ new_emails = <<>>
    /\ total_new = 0
    /\ total_duplicates = 0
    /\ lastOp = "init"
    /\ InitDb /\ InitSumm /\ InitAgg /\ InitSearch /\ InitIdle

NextConverge ==
    \/ GsStart
    \/ GsAgain
    \/ \E ok \in BOOLEAN : GsStep(ok)
    \/ GsFinish

SpecConverge ==
    /\ InitConverge
    /\ [][NextConverge]_vars
    /\ WF_vars(GsStart)
    /\ WF_vars(GsAgain)
    /\ WF_vars(\E ok \in BOOLEAN : GsStep(ok))
    /\ WF_vars(GsFinish)
    /\ \A j \in 1..MaxMixed : SF_vars(GsSucceed(j))

(***************************************************************************)
(* Properties of the merger.                                               *)
(***************************************************************************)
\* The two normalisations a reader can take "identical after case/space
\* normalization" to mean: of each field, or of the joined key.
NormField(s) == Strip(Lower(s))

SameNormalizedFields(x, y) ==
    /\ NormField(x.subject) = NormField(y.subject)
    /\ NormField(x.date) = NormField(y.date)

NormConcat(x) == NormalizedKey[<<x.subject, x.date>>]

StoredWithKey(key) == {i \in 1..Len(file) : NormConcat(file[i]) = key}

\* C1 as stated: of two messages whose subject and whose date are each
\* identical after lowercasing and trimming, merged into an empty corpus,
\* only one is stored.
C1_FieldwiseDedup ==
    \A i, j \in 1..Len(file) :
        SameNormalizedFields(file[i], file[j]) => i = j

\* C1 amended: of the messages whose joined subject+date is identical after
\* lowercasing and trimming the ends of the joined string, merged into an
\* empty corpus in one batch or in successive batches, exactly one is stored.
C1_FingerprintDedup ==
    /\ \A i, j \in 1..Len(file) :
           NormConcat(file[i]) = NormConcat(file[j]) => i = j
    /\ lastOp = "add_mbox" =>
           \A k \in 1..Len(new_emails) :
               Cardinality(StoredWithKey(NormConcat(new_emails[k]))) = 1

\* Two different messages with one key came in one batch: one was stored and
\* one counted as a duplicate.
C1_Witness ==
    /\ lastOp = "add_mbox"
    /\ Len(new_emails) = 2
    /\ new_emails[1] # new_emails[2]
    /\ NormConcat(new_emails[1]) = NormConcat(new_emails[2])
    /\ Len(file) = 1
    /\ total_new = 1
    /\ total_duplicates = 1

\* C2: merging the batch that was merged last again changes nothing: the
\* corpus is the same, 0 messages are added and every message of the batch
\* is counted as a duplicate.
C2_MergeIdempotent ==
    [][(lastOp = "add_mbox" /\ lastOp' = "add_mbox" /\ new_emails' = new_emails)
          => /\ file' = file
             /\ total_new' = 0
             /\ total_duplicates' = Len(new_emails')]_vars

\* A batch of two distinct messages has been merged into a corpus that held
\* both: nothing was added, both were skipped.
C2_Witness ==
    /\ lastOp = "add_mbox"
    /\ Len(new_emails) = 2
    /\ NormConcat(new_emails[1]) # NormConcat(new_emails[2])
    /\ Len(file) = 2
    /\ \A k \in 1..2 : file[k].subject = new_emails[k].subject
    /\ total_new = 0
    /\ total_duplicates = 2

\* The messages of the batch that survive the duplicate check against the
\* corpus: the first of each key that the corpus does not hold.
Survivors(corpus, batch) ==
    {k \in 1..Len(batch) :
        /\ \A i \in 1..Len(corpus) : NormConcat(corpus[i]) # NormConcat(batch[k])
        /\ \A j \in 1..(k - 1) : NormConcat(batch[j]) # NormConcat(batch[k])}

NthOf(K, n) == CHOOSE k \in K : Cardinality({j \in K : j < k}) = n - 1

SameMessage(stored, parsed) == [stored EXCEPT !.summary = NoSummary] = parsed

\* C4: a merge leaves the prior corpus as an unchanged prefix of the new
\* corpus, and the surviving new messages follow it in their input order.
C4_MergeAppendsOnly ==
    [][lastOp' = "add_mbox" =>
          LET K == Survivors(file, new_emails')
          IN  /\ Len(file') = Len(file) + Cardinality(K)
              /\ SubSeq(file', 1, Len(file)) = file
              /\ \A n \in 1..Cardinality(K) :
                     SameMessage(file'[Len(file) + n], new_emails'[NthOf(K, n)])]_vars

\* A batch of two survivors was appended, in order, to a corpus that held
\* one message with its summary.
C4_Witness ==
    /\ lastOp = "add_mbox"
    /\ Len(file) = 3
    /\ total_new = 2
    /\ Len(new_emails) = 2
    /\ file[1].summary # NoSummary
    /\ SameMessage(file[2], new_emails[1])
    /\ SameMessage(file[3], new_emails[2])

(***************************************************************************)
(* Properties of the corpus.                                               *)
(***************************************************************************)
RowKey(row) == NormalizedKey[<<row.subject, row.date>>]

\* C3: no two stored messages have the same fingerprint, in the flat file
\* and in the emails table, after any sequence of initial parses, merges and
\* migrations.
C3_FingerprintUnique ==
    /\ \A i, j \in 1..Len(file) :
           NormConcat(file[i]) = NormConcat(file[j]) => i = j
    /\ \A r1, r2 \in emails_tbl :
           RowKey(r1) = RowKey(r2) => r1.id = r2.id

\* C5: every stored message has at least one category, in the flat file and
\* in the store, after any sequence of normalizations, migrations and
\* re-categorization passes.
C5_CategoryComplete ==
    /\ \A i \in 1..Len(file) : file[i].categories # <<>>
    /\ \A r \in emails_tbl :
           /\ r.original_categories # <<>>
           /\ \E c \in email_categories : c.email_id = r.id

\* A message no rule matches has been migrated with the sentinel, and a
\* re-categorization pass has given another message a primary and a
\* secondary out of an answer with out-of-vocabulary labels.
C5_Witness ==
    /\ \E r \in emails_tbl : r.original_categories = <<Sentinel, "DeepSeek">>
    /\ \E i \in 1..Len(file) : file[i].categories = <<Sentinel>>
    /\ recat_i >= 1

(***************************************************************************)
(* Properties of the aggregate rebuilds.                                   *)
(***************************************************************************)
\* A rebuild is under way, or was terminated before its end, and the emails
\* and associations it reads are those it started from.
RebuildOpen(op) ==
    /\ rb_op = op
    /\ rb_pc \in {"cleared", "deleted", "inserted", "terminated"}
    /\ rb_src = <<emails_tbl, email_categories>>

\* The committed tables of a rebuild hold what they held before it, or what
\* the rebuild makes of the emails.
OldOrNew(op) ==
    \/ Committed(op) = rb_old
    \/ Committed(op) = Rebuilt(op, emails_tbl, email_categories)

\* C6: during the entity rebuild, and after one terminated midway, a reader
\* finds in entities / email_entities the complete contents from before the
\* rebuild or the complete rebuilt contents.
C6_EntityRebuildAtomic == RebuildOpen("entities") => OldOrNew("entities")

\* C7: during the regeneration of the curriculum, and after one terminated
\* midway, a reader finds the complete old curriculum or the complete new
\* one.
C7_CurriculumRegenAtomic == RebuildOpen("curriculum") => OldOrNew("curriculum")

\* C8: from the DELETE of the trend-snapshot rebuild or of the tool rebuild
\* up to its commit, and after a termination before the commit, the
\* committed tables hold the rows from before the rebuild; after the commit
\* they hold the rebuilt rows.
C8_SingleCommittedUnit ==
    rb_op \in {"trends", "tools"} =>
        /\ rb_pc \in {"deleted", "inserted", "terminated"} => Committed(rb_op) = rb_old
        /\ (rb_pc = "committed" /\ rb_src = <<emails_tbl, email_categories>>)
              => Committed(rb_op) = Rebuilt(rb_op, emails_tbl, email_categories)

\* A tool rebuild that had deleted the rows of a non-empty tools table, and
\* would have written other rows, was terminated before its commit.
C8_Witness ==
    /\ rb_op = "tools"
    /\ rb_pc = "terminated"
    /\ rb_old.tools # {}
    /\ rb_src = <<emails_tbl, email_categories>>
    /\ ToolTables(emails_tbl) # rb_old

(***************************************************************************)
(* Properties of the enrichment pass.                                      *)
(***************************************************************************)
\* The positions whose summary text was computed by this pass and is not in
\* the persisted file.
LostResults ==
    {j \in gs_called : gs_emails[j].summary = SummaryText /\ file[j].summary # SummaryText}

\* C9: while a pass runs, and after it crashed, at most K = SaveEvery of the
\* summaries it computed are absent from the persisted corpus file.
C9_CrashLosesAtMostK ==
    gs_pc \in {"loop", "crashed"} => Cardinality(LostResults) <= SaveEvery

\* C10: an iteration of the pass calls the capability for an email whose
\* summary is absent or the empty string, and for an email with a non-empty
\* summary it calls nothing and leaves the list as it is.
C10_GapFillSelection ==
    [][(gs_pc = "loop" /\ gs_i' = gs_i + 1) =>
          LET email == gs_emails[gs_i + 1]
          IN  /\ (email.summary = NoSummary \/ email.summary = EmptySummary)
                     => gs_called' = gs_called \cup {gs_i + 1}
              /\ (email.summary # NoSummary /\ email.summary # EmptySummary)
                     => gs_called' = gs_called /\ gs_emails' = gs_emails]_vars

\* A pass has ended that called the capability for an email whose summary
\* was empty, for an email that had none, and skipped one that had a text.
C10_Witness ==
    /\ gs_pc = "done"
    /\ \E j \in gs_called : gs_loaded[j].summary = EmptySummary
    /\ \E j \in gs_called : gs_loaded[j].summary = NoSummary
    /\ \E j \in 1..Len(gs_loaded) : j \notin gs_called /\ gs_loaded[j].summary = SummaryText

(***************************************************************************)
(* Properties of the enrichment of the corpus.                             *)
(***************************************************************************)
\* The email was handed to the capability: it has its text, or '' when the
\* call failed.
Summarized(email) == email.summary = SummaryText \/ email.summary = EmptySummary

\* C11: a failed capability call leaves the email with an empty summary and
\* the batch goes on.  A run of add_mbox stores every new email of the batch
\* with the text or with ''; an iteration of generate_summaries that fails
\* stores '' for its email, counts the failure once and stays in the loop,
\* and a pass that ended has handled every email of the list.
C11_FailureKeepsBatchGoing ==
    [][/\ lastOp' = "add_mbox" =>
              /\ Len(file') = Len(file) + total_new'
              /\ \A j \in (Len(file) + 1)..Len(file') : Summarized(file'[j])
       /\ (gs_pc = "loop" /\ gs_i' = gs_i + 1) =>
              /\ gs_pc' = "loop"
              /\ gs_emails'[gs_i + 1].summary # NoSummary
              /\ failed' # failed =>
                     /\ failed' = failed + 1
                     /\ gs_emails'[gs_i + 1].summary = EmptySummary
                     /\ gs_called' = gs_called \cup {gs_i + 1}
       /\ gs_pc' = "done" =>
              /\ gs_i' = Len(gs_emails')
              /\ \A j \in 1..Len(file') : file'[j].summary # NoSummary]_vars

\* A run of add_mbox stored two new emails, the first with the empty summary
\* of a failed call and the second with a text; then a pass of
\* generate_summaries in which a call failed has ended.
C11_Witness ==
    /\ gs_pc = "done"
    /\ failed > 0
    /\ Len(file) >= 2
    /\ file[Len(file) - 1].summary = EmptySummary
    /\ file[Len(file)].summary = SummaryText
    /\ total_new = 2

\* C12: a stored email that has a non-empty summary keeps it: no run of
\* add_mbox and no step of a generate_summaries pass, whether the
\* capability answers or fails, removes the email, changes its summary or
\* calls the capability for it.
C12_SummariesMonotonic ==
    [][\A j \in 1..Len(file) :
          file[j].summary = SummaryText =>
              /\ Len(file') >= j
              /\ file'[j].summary = SummaryText
              /\ (gs_pc = "loop" /\ j <= Len(gs_emails) /\ gs_emails[j].summary = SummaryText)
                    => (gs_emails'[j].summary = SummaryText /\ j \notin gs_called')]_vars

\* A pass that ended with a failed call, and a run of add_mbox after it,
\* have both left the text of an email that had one before the pass.
C12_Witness ==
    /\ lastOp = "add_mbox"
    /\ gs_pc = "done"
    /\ failed > 0
    /\ total_new > 0
    /\ \E j \in 1..Len(gs_loaded) :
           gs_loaded[j].summary = SummaryText /\ file[j].summary = SummaryText

(***************************************************************************)
(* Properties of the references between the tables.                        *)
(***************************************************************************)
EmailIds == {e.id : e \in emails_tbl}

\* C13: no row of the store references a row that does not exist: a category
\* association or a mention its email, a mention its entity or tool, a
\* lesson its module, a source link its lesson and its email.
C13_NoDanglingReference ==
    /\ \A c \in email_categories : c.email_id \in EmailIds
    /\ \A m \in email_entities :
           m.email_id \in EmailIds /\ \E x \in entities : x.name = m.entity
    /\ \A m \in tool_mentions :
           m.email_id \in EmailIds /\ \E x \in tools : x.name = m.tool
    /\ \A l \in lessons : \E x \in modules : x.title = l.module_id
    /\ \A s \in lesson_sources :
           /\ s.email_id \in EmailIds
           /\ \E l \in lessons : <<l.module_id, l.order_index>> = s.lesson_id

(***************************************************************************)
(* Properties of the derived tables.                                       *)
(***************************************************************************)
\* The dated emails of a category on a day.
DatedInCategory(day, category) ==
    {e \in emails_tbl :
        /\ e.date_parsed # <<>>
        /\ DATE(e.date_parsed[1]) = day
        /\ \E c \in email_categories : c.email_id = e.id /\ c.category = category}

\* C14: after a trend-snapshot rebuild from the emails and associations of
\* the store, whatever the table held before, the table has exactly one row
\* for each (day, category) that has a dated email, and the row's count is
\* the number of those emails; so a second rebuild from the same emails
\* yields the same rows.
C14_TrendRebuildDeterministic ==
    (rb_op = "trends" /\ rb_pc = "committed" /\ rb_src = <<emails_tbl, email_categories>>) =>
        /\ \A r \in trend_snapshots :
               /\ r.email_count = Cardinality(DatedInCategory(r.date, r.category))
               /\ r.email_count > 0
        /\ \A r1, r2 \in trend_snapshots :
               (r1.date = r2.date /\ r1.category = r2.category) => r1 = r2
        /\ \A e \in emails_tbl : \A c \in email_categories :
               (e.date_parsed # <<>> /\ c.email_id = e.id) =>
                   \E r \in trend_snapshots :
                       r.date = DATE(e.date_parsed[1]) /\ r.category = c.category

\* The second of two rebuilds from the same emails has committed the rows
\* the table held before it, one of them counting two emails of one day.
C14_Witness ==
    /\ rb_op = "trends"
    /\ rb_pc = "committed"
    /\ rb_src = <<emails_tbl, email_categories>>
    /\ rb_old = trend_snapshots
    /\ \E r \in trend_snapshots : r.email_count = 2
    /\ \E e \in emails_tbl : e.date_parsed = <<>>

\* The emails an entity is associated with.
AssociatedEmails(name) ==
    {e \in emails_tbl : \E m \in email_entities : m.entity = name /\ m.email_id = e.id}

\* C15: after a complete entity rebuild, in pattern mode or in LLM mode,
\* every entity's mention_count is the number of its association rows and
\* its first_seen / last_seen are the least / greatest date_parsed of the
\* associated emails.
C15_EntityAggregatesDerived ==
    (rb_op = "entities" /\ rb_pc = "committed" /\ rb_src = <<emails_tbl, email_categories>>) =>
        \A x \in entities :
            /\ x.mention_count = Cardinality({m \in email_entities : m.entity = x.name})
            /\ x.first_seen = FirstDate(AssociatedEmails(x.name))
            /\ x.last_seen = LastDate(AssociatedEmails(x.name))
            /\ (x.first_seen # <<>> /\ x.last_seen # <<>>) => x.first_seen[1] <= x.last_seen[1]


\* The row of table emails with this id.
RowOf(rows, id) == CHOOSE r \in rows : r.id = id

\* C16: whatever the classifier answered for an email, what the pass stores
\* for it is one primary and at most two secondaries.  The primary is the
\* answer's primary when that is in the vocabulary and the sentinel
\* otherwise; every secondary is a label of the answer that is in the
\* vocabulary and differs from the primary; table email_categories holds
\* exactly these labels for the email.
C16_ValidatedAgainstVocabulary ==
    [][(lastOp' = "recategorize" /\ recat_i' = recat_i + 1) =>
           LET email_id == recat_ids[recat_i']
               response == recat_response'[1]
               stored == RowOf(emails_tbl', email_id).original_categories
               primary == stored[1]
               secondary == Tail(stored)
           IN  /\ Len(stored) >= 1
               /\ Len(secondary) <= 2
               /\ response.kind = "json" /\ response.primary \in CATEGORY_LIST
                      => primary = response.primary
               /\ response.kind = "json" /\ response.primary \notin CATEGORY_LIST
                      => primary = Sentinel
               /\ response.kind = "error" => stored = <<Sentinel>>
               /\ \A k \in 1..Len(secondary) :
                      /\ secondary[k] \in CATEGORY_LIST
                      /\ secondary[k] # primary
                      /\ \E j \in 1..Len(response.secondary) :
                             response.secondary[j] = secondary[k]
               /\ {c.category : c \in {x \in email_categories' : x.email_id = email_id}}
                      = {stored[k] : k \in 1..Len(stored)}
      ]_vars

\* An answer whose primary and first secondary are outside the vocabulary
\* has been stored as the sentinel and the one secondary that is in it.
C16_Witness ==
    /\ lastOp = "recategorize"
    /\ recat_i >= 1
    /\ recat_response # <<>>
    /\ recat_response[1].primary \notin CATEGORY_LIST
    /\ recat_response[1].kind = "json"
    /\ RowOf(emails_tbl, recat_ids[recat_i]).original_categories = <<Sentinel, "DeepSeek">>

\* C17: no answer of the classifier ends the pass early: a pass that has
\* stopped has processed every email it selected, and each of them holds
\* the sentinel or labels of the vocabulary.
C17_NoItemAbortsBatch ==
    (lastOp = "recategorize" /\ recat_pc = "idle") =>
        /\ recat_i = Len(recat_ids)
        /\ \A k \in 1..Len(recat_ids) :
               LET stored == RowOf(emails_tbl, recat_ids[k]).original_categories
               IN  /\ stored # <<>>
                   /\ \A j \in 1..Len(stored) : stored[j] \in CATEGORY_LIST \cup {Sentinel}


\* The ids of a list of results.
IdsOf(results) == {results[i].id : i \in 1..Len(results)}

\* The entries of the merged list for an id.
EntriesFor(X) == {i \in 1..Len(merged) : merged[i].id = X}

\* C18, as stated: for an id that semantic_search and keyword_search both
\* return, the merged list has exactly one entry, and its similarity is a
\* score, not None.
C18_SemanticScoreOnCollision ==
    \A X \in IdsOf(semantic_results) \cap IdsOf(keyword_results) :
        /\ Cardinality(EntriesFor(X)) = 1
        /\ \A i \in EntriesFor(X) : merged[i].similarity # <<>>

\* C18, amended: when the capability answered the query's embedding, an id
\* that both searches return has exactly one entry in the merged list, and
\* the entry carries the similarity semantic_search computed for it.
C18_SemanticScoreWhenEmbedded ==
    hs_client.kind = "ok" =>
        \A X \in IdsOf(semantic_results) \cap IdsOf(keyword_results) :
            /\ Cardinality(EntriesFor(X)) = 1
            /\ \A i \in EntriesFor(X) :
                   /\ merged[i].similarity # <<>>
                   /\ \E j \in 1..Len(semantic_results) :
                          /\ semantic_results[j].id = X
                          /\ semantic_results[j].similarity = merged[i].similarity

\* A search with an embedded query has returned an id both searches found,
\* with a similarity that is not 0, next to a match of the keyword search
\* alone.
C18_Witness ==
    /\ lastOp = "search"
    /\ hs_client.kind = "ok"
    /\ \E X \in IdsOf(semantic_results) \cap IdsOf(keyword_results) :
           \E i \in EntriesFor(X) : merged[i].similarity \notin {<<>>, <<0>>}
    /\ \E i \in 1..Len(merged) : merged[i].match_type = "keyword"

\* C19: with no client, or no embedding of the query, the search returns
\* the ids of a keyword search for the query, in its order and cut at the
\* limit.
C19_DegradesToKeywordOnly ==
    (lastOp = "search" /\ hs_client.kind # "ok") =>
        /\ Len(merged) <= hs_limit
        /\ [i \in 1..Len(merged) |-> merged[i].id]
               \in {[i \in 1..Len(k) |-> k[i].id] : k \in keyword_search(hs_query, hs_limit)}

\* A search without the capability has returned as many results as the
\* limit allows, out of more rows that match.
C19_Witness ==
    /\ lastOp = "search"
    /\ hs_client.kind # "ok"
    /\ Len(merged) = hs_limit
    /\ Cardinality({r \in emails_tbl : MatchesKeyword(r, hs_query)}) > hs_limit


\* The entries of the returned list for a category.
TrendEntries(c) == {trends[i] : i \in {j \in 1..Len(trends) : trends[j].category = c}}

\* The rule of the trend direction for previous count p and recent count r,
\* in whole numbers: the growth is over 10 percent, or under -10 percent.
DirectionRule(p, r) ==
    IF (p > 0 /\ 100 * (r - p) > 10 * p) \/ (p = 0 /\ r > 0) THEN "up"
    ELSE IF p > 0 /\ 100 * (r - p) < -10 * p THEN "down"
    ELSE "stable"

\* The entry the rule asks for: the two counts, the growth to a twentieth
\* of a percent (100 for a new category, 0 for none), and the label.
FollowsRule(e, p, r) ==
    /\ e.previous_count = p
    /\ e.recent_count = r
    /\ e.trend = DirectionRule(p, r)
    /\ p > 0 => 2 * Abs(1000 * (r - p) - e.growth_percent * p) <= p
    /\ (p = 0 /\ r > 0) => e.growth_percent = 1000
    /\ (p = 0 /\ r = 0) => e.growth_percent = 0
    /\ (p = 100 /\ r = 111) => e.trend = "up"
    /\ (p = 100 /\ r = 109) => e.trend = "stable"
    /\ (p = 100 /\ r = 110) => e.trend = "stable"
    /\ (p = 0 /\ r = 5) => e.trend = "up"

SubmittedTotal == Cardinality(Questions(sq_lesson))

SubmittedCorrect ==
    Cardinality({q \in Questions(sq_lesson) :
                    /\ q.order_index \in DOMAIN sq_payload.answers
                    /\ UpperChar(sq_payload.answers[q.order_index])
                           = UpperChar(q.correct_answer)})

\* C21: a graded submission with t > 0 questions of which c are answered
\* correctly has the score round(c / t * 100), that is, the whole number
\* nearest to 100c / t (the even one of two equally near), and has passed
\* exactly when the score is at least 70; the answers A, B, D to the
\* questions A, B, C score 67 and fail.
C21_QuizGrading ==
    (lastOp = "submit" /\ sq_result.kind = "graded") =>
        LET t == SubmittedTotal
            c == SubmittedCorrect
            score == sq_result.score
        IN  /\ t > 0
            /\ sq_result.total = t
            /\ sq_result.correct = c
            /\ 2 * (100 * c - score * t) <= t
            /\ 2 * (score * t - 100 * c) <= t
            /\ (2 * (100 * c - score * t) = t \/ 2 * (score * t - 100 * c) = t)
                   => score % 2 = 0
            /\ sq_result.passed = (score >= 70)
            /\ (t = 3 /\ c = 2) => (score = 67 /\ ~sq_result.passed)

\* The answers A, B, D to the questions A, B, C have been graded 67, not
\* passed.
C21_Witness ==
    /\ lastOp = "submit"
    /\ sq_result.kind = "graded"
    /\ sq_payload.answers = <<"A", "B", "D">>
    /\ {q.correct_answer : q \in Questions(sq_lesson)} = {"A", "B", "C"}
    /\ sq_result.score = 67
    /\ ~sq_result.passed


\* A submission that is malformed: no body, no 'answers', 'answers' that is
\* not an object, or an answer that is not a string.
Malformed(payload) ==
    \/ payload.kind \in {"none", "empty", "no_answers", "list"}
    \/ payload.kind = "mapping"
           /\ \E k \in DOMAIN payload.answers : payload.answers[k] = NotAString

\* C22: a malformed submission is answered with a client error.
C22_MalformedRejected ==
    (lastOp = "submit" /\ Malformed(sq_payload)) => sq_status = 400

\* The rows of the progress table for a lesson.
ProgressRows(progress, lesson_id) == {p \in progress : p.lesson_id = lesson_id}

Emitted(rec) ==
    /\ ~rec.malformed
    /\ (rec.subject # <<>> \/ ProcessedBody(rec.body) # <<>>)

EmittedRecords(archive) == SelectSeq(archive, Emitted)

LatestDate(snapshots) == Max({x.date : x \in snapshots})

\* The rows of the days calendar days that end at the latest snapshot date,
\* and of the days calendar days before them.
LastDaysRows(snapshots, days) ==
    {t \in snapshots : /\ t.date > LatestDate(snapshots) - days
                       /\ t.date <= LatestDate(snapshots)}

PrecedingDaysRows(snapshots, days) ==
    {t \in snapshots : /\ t.date > LatestDate(snapshots) - 2 * days
                       /\ t.date <= LatestDate(snapshots) - days}

SnapshotsOf(rows, category) == {t \in rows : t.category = category}

\* C27: the counts of every entry are those of two adjacent windows of
\* days calendar days each, the recent one ending at the latest snapshot
\* date.
C27_WindowsOfEqualLength ==
    lastOp = "trending" =>
        \A i \in DOMAIN trends, days \in TrendDays :
            /\ trends[i].recent_count =
                   SumCounts(SnapshotsOf(LastDaysRows(trend_snapshots, days),
                                          trends[i].category))
            /\ trends[i].previous_count =
                   SumCounts(SnapshotsOf(PrecedingDaysRows(trend_snapshots, days),
                                          trends[i].category))

\* C29: a category with a positive count in the preceding window and no
\* row in the recent window has an entry, with recent count 0 and trend
\* 'down'.
C29_VanishedCategoryReported ==
    lastOp = "trending" =>
        \A days \in TrendDays, c \in {t.category : t \in trend_snapshots} :
            (/\ SumCounts(SnapshotsOf(PreviousRows(trend_snapshots, days), c)) > 0
             /\ SnapshotsOf(RecentRows(trend_snapshots, days), c) = {})
            => \E i \in DOMAIN trends :
                   /\ trends[i].category = c
                   /\ trends[i].recent_count = 0
                   /\ trends[i].trend = "down"

(***************************************************************************)
(* Properties of the result list of hybrid_search.                         *)
(***************************************************************************)
KeywordOnly(entry) == entry.match_type = "keyword"

\* C28: the result has at most limit entries with distinct ids, semantic
\* hits before keyword-only hits, a zero score on every keyword-only hit,
\* and a keyword-only hit only when the semantic search returned fewer than
\* limit results.
C28_HybridResultShape ==
    lastOp = "search" =>
        /\ Len(merged) <= hs_limit
        /\ \A i, j \in DOMAIN merged : i # j => merged[i].id # merged[j].id
        /\ \A i, j \in DOMAIN merged :
               (KeywordOnly(merged[i]) /\ ~KeywordOnly(merged[j])) => j < i
        /\ \A i \in DOMAIN merged : KeywordOnly(merged[i]) => merged[i].similarity = <<0>>
        /\ (\E i \in DOMAIN merged : KeywordOnly(merged[i]))
               => Len(semantic_results) < hs_limit

\* A search whose two lists share a message and together exceed the limit,
\* with a semantic hit and a keyword-only hit in the result.
C28_Witness ==
    /\ lastOp = "search"
    /\ hs_client.kind = "ok"
    /\ Len(merged) = hs_limit
    /\ Len(semantic_results) + Len(keyword_results) > hs_limit
    /\ IdsOf(semantic_results) \cap IdsOf(keyword_results) # {}
    /\ \E i, j \in DOMAIN merged : KeywordOnly(merged[i]) /\ ~KeywordOnly(merged[j])

(***************************************************************************)
(* Properties of the link enrichment.                                      *)
(***************************************************************************)
\* C25: a link whose fetch failed is selected again by a later pass of
\* enrich_pending_links.
C25_FailedLinkRetried ==
    \A link \in email_links :
        link.fetch_status = <<"failed">>
            => link \in PendingLinks(email_links, Cardinality(email_links))

(***************************************************************************)
(* Properties of the ledger of processed files.                            *)
(***************************************************************************)
\* Every message of the archive is in the corpus file, itself or the
\* message it duplicates.
ArchiveInCorpus(mbox_file) ==
    LET parsed == ParsedArchive[AttachedAssets[mbox_file]]
    IN  \A i \in 1..Len(parsed) :
            generate_email_hash(parsed[i]) \in get_existing_hashes(file)

\* C26: whenever no run is in progress, after a run that ended or one that
\* was terminated, every file of the ledger has its messages in the corpus
\* file.
C26_LedgerCoveredByCorpus ==
    am_pc = "idle" => \A mbox_file \in processed_files : ArchiveInCorpus(mbox_file)

(***************************************************************************)
(* Convergence of the enrichment passes.                                   *)
(***************************************************************************)
AllSummarized(emails) == \A i \in 1..Len(emails) : ~NeedsSummary(emails[i])

\* C30: a pass that has started ends, and ends having visited every
\* message; from some pass on every stored message has a summary and a pass
\* makes no call of the capability.
C30_GapFillingConverges ==
    /\ (gs_pc = "loop") ~> (gs_pc = "done")
    /\ [](gs_pc = "done" => gs_i = Len(gs_emails))
    /\ <>[](AllSummarized(file) /\ (gs_pc = "done" => gs_called = {}))

\* A pass has ended in which a message that held the empty summary of a
\* failed call got its summary, and no message is left without one.
C30_Witness ==
    /\ gs_pc = "done"
    /\ AllSummarized(file)
    /\ failed = 0
    /\ \E j \in gs_called : gs_loaded[j].summary = EmptySummary
    /\ Len(file) = MaxMixed
====
